---- MODULE Spec2Model ----
(***************************************************************************)
(* Client-side backtest stream / bar table / chart marker engine of        *)
(* anti_stock (web/static).  The specifications share the variables:       *)
(*   Spec         the backtest page: data check, run, stream session       *)
(*   SpecConfig   Spec with the user editing the form                      *)
(*   SpecPayload  Spec with messages that lack payload fields              *)
(*   SpecTable    the bar table under arbitrary trade events               *)
(*   SpecChart    the chart page: chart loads                              *)
(*   SpecMarkers  the chart page: marker store, trade list                 *)
(*   SpecPopup    the chart popup: open, interval change, indicator toggle *)
(*   SpecExport   Spec with the Excel export of the stored result          *)
(*   SpecInflight the chart page: overlapping loads of one symbol          *)
(*   SpecPages    the chart page: paging of the trade list                 *)
(*   SpecSell     the dashboard: immediate sell and the status poll        *)
(*   SpecControl  the dashboard: start / restart / stop and the status poll*)
(*   SpecEditor   the strategy editor: create, select, rename, delete      *)
(***************************************************************************)
EXTENDS Integers, Sequences, FiniteSets, TLC

VARIABLES
    \* ---- backtest page (modules/backtest.js) ----
    btnRunDisabled,      \* btn-run-backtest .disabled
    statusText,          \* bt-status .textContent
    progressText,        \* bt-progress-text .textContent (bar width is the same value)
    panel,               \* summary panel: bt-qty, bt-avg, ... bt-trade-count
    lastBacktestResult,  \* module variable lastBacktestResult
    sockets,             \* the WebSocket objects created by runBacktestWebSocket
    form,                \* the form inputs (bt-symbol ...) the handlers read
    table,               \* #bt-trade-table tbody: rows and the row last scrolled to
    tableFor,            \* the symbol whose /backtest/data response filled the table
    lastEvent,           \* the trade event most recently passed to updateTableRow
    checks,              \* running btnCheck click handlers (async), by slot
    alertMsg,            \* the modal alert() on display, NoAlert when none
    \* ---- chart page (chart.js) ----
    currentMarkers,      \* the marker list (let currentMarkers)
    chartMarkers,        \* the list last handed to candleSeries.setMarkers
    allTradeEvents,      \* the trade list's events, newest first
    currentPage,         \* page of the trade list
    rowInputs,           \* values of the datetime-local inputs of the rows on display
    chartStatus,         \* chart-status text (logStatus)
    currentChartTimeframe,
    chartFetches,        \* loadChartData calls awaiting their response, oldest first
    series,              \* the selection whose data each chart series shows
    now,                 \* last reading of Date.now()
    requestedSymbol,     \* symbol of the latest loadChartData call, "" before any
    tz,                  \* the browser's time zone offset
    \* ---- chart popup (openChart / updateInterval / toggleMA) ----
    currentSymbol,       \* let currentSymbol, NoSymbol for null
    currentInterval,     \* let currentInterval
    maVisible,           \* options.visible of maSeries[p], by period
    loaderShown,         \* chart-loader .style.display = 'flex'
    popupFetches,        \* popup loadChartData calls awaiting their response
    popupSeries,         \* the selection whose data each popup series shows
    \* ---- export of the backtest page ----
    exportPending,       \* bodies of the /backtest/export requests awaiting their response
    \* ---- dashboard (updateStatus, sellImmediate, btn-start, btn-stop) ----
    sellButtons,         \* #positions-table: .disabled of the sell button of each row
    sellRequests,        \* sellImmediate calls awaiting their response
    statusPolls,         \* updateStatus calls awaiting their /status response
    statusIndicator,     \* status-indicator .className / text
    btnStart,            \* btn-start: .textContent and .disabled
    btnStopDisabled,     \* btn-stop .disabled
    controls,            \* start / restart / stop handlers awaiting a response
    \* ---- strategy editor (lab1 config page) ----
    fullConfig,          \* let fullConfig without _meta: its keys in order, with bodies
    meta,                \* fullConfig._meta
    currentStrategy,     \* let currentStrategy, NoStrategy for null
    activeStrategy,      \* let activeStrategy, NoStrategy for null
    configLoading,       \* initConfigPage awaits the response of GET /api/lab1/config
    saves                \* saveConfig calls awaiting their response: their silent flag

btVars == <<btnRunDisabled, statusText, progressText, panel, lastBacktestResult,
            sockets, form, checks>>

tableVars == <<table, tableFor, lastEvent>>

chartVars == <<currentMarkers, chartMarkers, allTradeEvents, currentPage, rowInputs,
               chartStatus, currentChartTimeframe, chartFetches, series, now, requestedSymbol, tz>>

popupVars == <<currentSymbol, currentInterval, maVisible, loaderShown, popupFetches,
               popupSeries>>

\* the variables of the handlers that the stream, table, chart and popup
\* handlers never touch
dashVars == <<sellButtons, sellRequests, statusPolls, statusIndicator, btnStart,
              btnStopDisabled, controls>>

editorVars == <<fullConfig, meta, currentStrategy, activeStrategy, configLoading,
                saves>>

otherVars == <<exportPending, dashVars, editorVars>>

vars == <<btVars, tableVars, alertMsg, chartVars, popupVars, otherVars>>

\* ------------------------------------------------------------------ bounds
MaxSessions == 2      \* WebSocket objects alive in the model at once
MaxChecks == 1        \* data-check handlers in flight at once

NoAlert == "none"
NoResult == [none |-> TRUE]
NoEvent == [none |-> TRUE]
NoSymbol == ""
\* a slot holding no live WebSocket (none created yet, or closed: a closed
\* socket fires no further event)
NoSocket == [state |-> "none", sent |-> <<>>]

Has(r, f) == f \in DOMAIN r

\* ------------------------------------------------------------------ text helpers
\* Strings the code inspects character-wise (timestamps, row keys) are
\* sequences of tokens; SP is the space character.
SP == " "

RECURSIVE trimLeft(_)
trimLeft(s) == IF s # <<>> /\ Head(s) = SP THEN trimLeft(Tail(s)) ELSE s

RECURSIVE trimRight(_)
trimRight(s) ==
    IF s # <<>> /\ s[Len(s)] = SP THEN trimRight(SubSeq(s, 1, Len(s) - 1)) ELSE s

\* String.prototype.trim
trim(s) == trimRight(trimLeft(s))

Pad3(n) == IF n < 10 THEN "00" \o ToString(n)
           ELSE IF n < 100 THEN "0" \o ToString(n) ELSE ToString(n)

RECURSIVE Comma(_)
Comma(n) == IF n < 1000 THEN ToString(n)
            ELSE Comma(n \div 1000) \o "," \o Pad3(n % 1000)

\* formatComma: thousands separators ("1,000")
formatComma(n) == IF n < 0 THEN "-" \o Comma(-n) ELSE Comma(n)

\* parseFloat(x).toFixed(2) and .toFixed(1) on the integer-valued payloads used here
toFixed2(n) == ToString(n) \o ".00"
toFixed1(n) == ToString(n) \o ".0"

\* JavaScript truthiness of an optional numeric field / string field
TruthyNum(r, f) == Has(r, f) /\ r[f] # 0
TruthyStr(r, f) == Has(r, f) /\ r[f] # ""

\* ------------------------------------------------------------------ bar table
\* One <tr> of #bt-trade-table: its data-date attribute, its cells' text and
\* the classes / styles the handlers set.
\* a row keyed by its date alone, whether or not it has a time
uniqueKey_dateOnly(row) == <<row.date>>

uniqueKey(row) == IF TruthyStr(row, "time") THEN <<row.date, SP, row.time>>
                  ELSE <<row.date>>

BaseRow(row) ==
    [ key      |-> uniqueKey(row),
      close    |-> formatComma(row.close),
      maShort  |-> IF TruthyNum(row, "ma5") THEN formatComma(row.ma5) ELSE "-",
      maLong   |-> IF TruthyNum(row, "ma20") THEN formatComma(row.ma20) ELSE "-",
      vol      |-> formatComma(row.volume),
      avgVol   |-> IF TruthyNum(row, "vol_ma20") THEN formatComma(row.vol_ma20) ELSE "-",
      adx      |-> "-",
      slope    |-> "-",
      rr       |-> "-",
      rrClass  |-> "",
      weight   |-> "-",
      action   |-> "-",
      actionColor |-> "",
      log      |-> "",
      logTitle |-> "",
      side     |-> "",
      sideClass |-> "border-left text-center side-cell",
      qty      |-> "",
      price    |-> "",
      pnl      |-> "",
      pnlClass |-> "",
      rowBuy   |-> FALSE,
      rowSell  |-> FALSE ]

NoRow == 0

\* renderDataTable without tbody.innerHTML = "": the new rows are appended
\* to the rows on display
renderDataTable_append(data) ==
    [ rows    |-> table.rows \o [i \in 1..Len(data) |-> BaseRow(data[i])],
      touched |-> table.touched ]

\* renderDataTable: tbody.innerHTML = "" and one <tr> per entry of data
renderDataTable(data) ==
    [ rows    |-> [i \in 1..Len(data) |-> BaseRow(data[i])],
      touched |-> NoRow ]

\* document.querySelector(`tr[data-date="${dateKey}"]`): the first row in
\* document order with that attribute, 0 for null
querySelector(rows, dateKey) ==
    IF \E i \in 1..Len(rows) : rows[i].key = dateKey
    THEN CHOOSE i \in 1..Len(rows) :
            /\ rows[i].key = dateKey
            /\ \A j \in 1..(i - 1) : rows[j].key # dateKey
    ELSE 0

sideText(trade) ==
    IF ~Has(trade, "side") THEN ""
    ELSE IF trade.side = "BUY" THEN "Buy(maesu)"
    ELSE IF trade.side = "SELL" THEN "Sell(maedo)"
    ELSE IF trade.side = "SKIP" THEN "Hold(boryu)"
    ELSE trade.side

sideClassOf(trade) ==
    IF Has(trade, "side") /\ trade.side = "BUY"
    THEN "border-left text-center side-cell trade-buy"
    ELSE IF Has(trade, "side") /\ trade.side = "SELL"
    THEN "border-left text-center side-cell trade-sell"
    ELSE "border-left text-center side-cell trade-skip"

actionColorOf(old, a) ==
    IF a = "BUY" THEN "#ef4444"
    ELSE IF a = "SELL" THEN "#3b82f6"
    ELSE IF a = "HOLD" \/ a = "FAIL" THEN "#f59e0b"
    ELSE old

\* The body of `if (tr) { ... }` of updateTableRow on one row.  Payload numbers
\* are integers here, on which Math.round leaves the value as it is.
mergeRow(r, trade) ==
    [ key      |-> r.key,
      close    |-> r.close,
      side     |-> sideText(trade),
      sideClass |-> sideClassOf(trade),
      qty      |-> IF Has(trade, "qty") THEN formatComma(trade.qty) ELSE r.qty,
      price    |-> IF Has(trade, "price") THEN formatComma(trade.price) ELSE r.price,
      pnl      |-> IF Has(trade, "pnl_pct") THEN toFixed2(trade.pnl_pct) \o "%" ELSE r.pnl,
      pnlClass |-> IF Has(trade, "pnl_pct")
                   THEN (IF trade.pnl_pct >= 0 THEN "pnl-positive" ELSE "pnl-negative")
                   ELSE r.pnlClass,
      maShort  |-> IF TruthyNum(trade, "ma_short") THEN formatComma(trade.ma_short) ELSE r.maShort,
      maLong   |-> IF TruthyNum(trade, "ma_long") THEN formatComma(trade.ma_long) ELSE r.maLong,
      vol      |-> IF TruthyNum(trade, "volume") THEN formatComma(trade.volume) ELSE r.vol,
      avgVol   |-> IF TruthyNum(trade, "avg_vol") THEN formatComma(trade.avg_vol) ELSE r.avgVol,
      adx      |-> IF TruthyNum(trade, "adx") THEN ToString(trade.adx) ELSE r.adx,
      slope    |-> IF TruthyNum(trade, "slope") THEN toFixed1(trade.slope) ELSE r.slope,
      rr       |-> IF TruthyNum(trade, "rr_ratio") THEN toFixed2(trade.rr_ratio) ELSE r.rr,
      rrClass  |-> IF TruthyNum(trade, "rr_ratio")
                   THEN (IF trade.rr_ratio >= 2 THEN "pnl-positive" ELSE "")
                   ELSE r.rrClass,
      weight   |-> IF TruthyNum(trade, "perf_weight") THEN toFixed2(trade.perf_weight) ELSE r.weight,
      action   |-> IF TruthyStr(trade, "action") THEN trade.action ELSE r.action,
      actionColor |-> IF TruthyStr(trade, "action")
                      THEN actionColorOf(r.actionColor, trade.action) ELSE r.actionColor,
      log      |-> IF TruthyStr(trade, "msg") THEN trade.msg ELSE r.log,
      logTitle |-> IF TruthyStr(trade, "msg") THEN trade.msg ELSE r.logTitle,
      rowBuy   |-> r.rowBuy \/ (Has(trade, "side") /\ trade.side = "BUY"),
      rowSell  |-> r.rowSell \/ (Has(trade, "side") /\ trade.side = "SELL") ]

\* trade.timestamp.trim() throws a TypeError when the event has no timestamp
updateTableRowThrows(trade) == ~Has(trade, "timestamp")

\* Mutants of updateTableRow: classList.toggle instead of classList.add,
\* a synthetic row inserted for an unmatched key, the close cell overwritten
\* by the trade price.
updateTableRow_toggle(t, trade) ==
    LET i == querySelector(t.rows, trim(trade.timestamp))
        m == mergeRow(t.rows[i], trade)
    IN  IF i = 0 THEN t
        ELSE [ rows |-> [t.rows EXCEPT ![i] =
                   [m EXCEPT !.rowBuy = (t.rows[i].rowBuy
                                          # (Has(trade, "side") /\ trade.side = "BUY"))]],
               touched |-> i ]

updateTableRow_insert(t, trade) ==
    LET dateKey == trim(trade.timestamp)
        i == querySelector(t.rows, dateKey)
        blank == [date |-> "", close |-> 0, volume |-> 0]
    IN  IF i = 0
        THEN [ rows |-> Append(t.rows,
                   mergeRow([BaseRow(blank) EXCEPT !.key = dateKey], trade)),
               touched |-> Len(t.rows) + 1 ]
        ELSE [ rows    |-> [t.rows EXCEPT ![i] = mergeRow(t.rows[i], trade)],
               touched |-> i ]

updateTableRow_close(t, trade) ==
    LET i == querySelector(t.rows, trim(trade.timestamp))
        m == mergeRow(t.rows[i], trade)
    IN  IF i = 0 THEN t
        ELSE [ rows |-> [t.rows EXCEPT ![i] =
                   [m EXCEPT !.close = IF Has(trade, "price")
                                       THEN formatComma(trade.price) ELSE m.close]],
               touched |-> i ]

\* updateTableRow(trade) on the table t (for an event that does not throw)
updateTableRow(t, trade) ==
    LET dateKey == trim(trade.timestamp)
        i == querySelector(t.rows, dateKey)
    IN  IF i = 0 THEN t
        ELSE [ rows    |-> [t.rows EXCEPT ![i] = mergeRow(t.rows[i], trade)],
               touched |-> i ]

\* ------------------------------------------------------------------ server data
Symbols == {"A", "B"}

\* the symbols whose dataset the bar table is loaded with: those of the form
\* and C, whose dataset lists the bar of one date twice
Datasets == Symbols \cup {"C"}

\* /backtest/data responses (jsonData.data) per requested symbol: daily bars
\* for A (no time field), intraday bars for B, two entries of one date for C
BaselineOf(sym) ==
    IF sym = "A"
    THEN << [date |-> "D1", close |-> 1000, ma5 |-> 990, ma20 |-> 0,
             volume |-> 500, vol_ma20 |-> 400],
            [date |-> "D2", close |-> 1010, ma5 |-> 995, ma20 |-> 980,
             volume |-> 0, vol_ma20 |-> 0] >>
    ELSE IF sym = "B"
    THEN << [date |-> "D1", time |-> "T1", close |-> 20, ma5 |-> 19, ma20 |-> 18,
             volume |-> 7, vol_ma20 |-> 6],
            [date |-> "D1", time |-> "T2", close |-> 21, ma5 |-> 19, ma20 |-> 18,
             volume |-> 8, vol_ma20 |-> 6] >>
    ELSE << [date |-> "D1", close |-> 30, ma5 |-> 29, ma20 |-> 28,
             volume |-> 9, vol_ma20 |-> 9],
            [date |-> "D1", close |-> 31, ma5 |-> 29, ma20 |-> 28,
             volume |-> 10, vol_ma20 |-> 9] >>

\* trade_event payloads / detailed_logs entries the server may send
EvBuy  == [timestamp |-> <<"D1">>, side |-> "BUY", qty |-> 10, price |-> 1000]
EvSell == [timestamp |-> <<"D1", SP>>, side |-> "SELL", qty |-> 10, price |-> 1100,
           pnl_pct |-> 10, ma_short |-> 991, ma_long |-> 981, volume |-> 501,
           avg_vol |-> 401, adx |-> 25, slope |-> 2, rr_ratio |-> 3,
           perf_weight |-> 1, action |-> "SELL", msg |-> "exit"]
EvLoss == [timestamp |-> <<"D2">>, side |-> "SELL", qty |-> 4, price |-> 900,
           pnl_pct |-> -3, rr_ratio |-> 1, action |-> "FAIL"]
EvZero == [timestamp |-> <<"D1">>, side |-> "SKIP", qty |-> 0, price |-> 0,
           adx |-> 0, slope |-> 0, rr_ratio |-> 0, perf_weight |-> 0,
           action |-> "HOLD", msg |-> ""]
EvNoSide == [timestamp |-> <<"D2", SP>>, adx |-> 30, msg |-> "watch"]
EvIntraday == [timestamp |-> <<"D1", SP, "T1">>, side |-> "BUY", qty |-> 1, price |-> 20]
EvIntraday2 == [timestamp |-> <<"D1", SP, "T2">>, side |-> "1", qty |-> 2, price |-> 21,
                ma_short |-> 22]
EvUnmatched == [timestamp |-> <<"D9">>, side |-> "BUY", qty |-> 1, price |-> 1,
                ma_short |-> 5, action |-> "BUY", msg |-> "lost"]
EvNoTimestamp == [side |-> "BUY", qty |-> 1, price |-> 1]

TradeEvents == {EvBuy, EvSell, EvLoss, EvZero, EvNoSide, EvIntraday, EvIntraday2,
                EvUnmatched}

\* ------------------------------------------------------------------ chart page: time
\* Instants are whole ticks; a calendar day has DayLen ticks; tz is the
\* browser's offset of local time from UTC in ticks.
DayLen == 2
MaxTime == 3
Times == 1..MaxTime

Instant(t) == [kind |-> "instant", v |-> t]

\* `${d.getFullYear()}-${pad(d.getMonth() + 1)}-${pad(d.getDate())}`: the
\* local calendar date of instant t
LocalDate(t) == [kind |-> "date", v |-> (t + tz) \div DayLen]

\* new Date(event.timestamp).getTime() / 1000, or the date string when the
\* timeframe is daily
markerTime(t, timeframe) == IF timeframe = "D" THEN LocalDate(t) ELSE Instant(t)

\* The comparator's key: a string time is parsed by new Date("YYYY-MM-DD"),
\* which is midnight UTC of that date; a number is taken as it is
EffTime(time) == IF time.kind = "date" THEN time.v * DayLen ELSE time.v

\* Array.prototype.sort is stable: insertion after the last element that is
\* not greater
RECURSIVE InsertAsc(_, _)
InsertAsc(sorted, m) ==
    IF sorted = <<>> THEN <<m>>
    ELSE IF EffTime(sorted[Len(sorted)].time) <= EffTime(m.time) THEN Append(sorted, m)
    ELSE Append(InsertAsc(SubSeq(sorted, 1, Len(sorted) - 1), m), sorted[Len(sorted)])

RECURSIVE sortMarkers(_)
sortMarkers(ms) ==
    IF ms = <<>> THEN <<>>
    ELSE InsertAsc(sortMarkers(SubSeq(ms, 1, Len(ms) - 1)), ms[Len(ms)])

RECURSIVE InsertDesc(_, _)
InsertDesc(sorted, e) ==
    IF sorted = <<>> THEN <<e>>
    ELSE IF sorted[Len(sorted)].timestamp >= e.timestamp THEN Append(sorted, e)
    ELSE Append(InsertDesc(SubSeq(sorted, 1, Len(sorted) - 1), e), sorted[Len(sorted)])

\* [...events].sort((a, b) => new Date(b.timestamp) - new Date(a.timestamp))
RECURSIVE sortEventsDesc(_)
sortEventsDesc(es) ==
    IF es = <<>> THEN <<>>
    ELSE InsertDesc(sortEventsDesc(SubSeq(es, 1, Len(es) - 1)), es[Len(es)])

\* ------------------------------------------------------------------ chart page: markers
itemsPerPage == 5

\* if (!event.event_id) event.event_id = `${prefix}_${Date.now()}_${index}`
withEventId(event, prefix, clock, index) ==
    IF Has(event, "event_id") THEN event
    ELSE [f \in DOMAIN event \cup {"event_id"} |->
            IF f = "event_id" THEN <<prefix, clock, index>> ELSE event[f]]

ensureIds(events, prefix, clock) ==
    [i \in 1..Len(events) |-> withEventId(events[i], prefix, clock, i - 1)]

\* The marker pushed for one event (its id already ensured); fallback is the
\* text of an event without side and without event_type
toMarker(event, timeframe, fallback) ==
    LET side == IF Has(event, "side") THEN event.side ELSE ""
    IN  [ time     |-> markerTime(event.timestamp, timeframe),
          position |-> IF side = "BUY" THEN "belowBar" ELSE "aboveBar",
          color    |-> IF side = "BUY" THEN "#26a69a"
                       ELSE IF side = "SELL" THEN "#ef5350" ELSE "#2196F3",
          shape    |-> IF side = "BUY" THEN "arrowUp"
                       ELSE IF side = "SELL" THEN "arrowDown" ELSE "circle",
          text     |-> IF side = "BUY" THEN "Buy " \o ToString(event.qty)
                       ELSE IF side = "SELL" THEN "Sell " \o ToString(event.qty)
                       ELSE IF Has(event, "event_type") THEN event.event_type
                       ELSE fallback,
          id       |-> event.event_id ]

toMarkers(events, timeframe, fallback) ==
    [i \in 1..Len(events) |-> toMarker(events[i], timeframe, fallback)]

\* renderTradeTable: the datetime-local inputs of the rows of the current page
pageItems(events, page) ==
    LET startIndex == (page - 1) * itemsPerPage
        endIndex == IF startIndex + itemsPerPage < Len(events)
                    THEN startIndex + itemsPerPage ELSE Len(events)
    IN  IF startIndex >= Len(events) THEN <<>>
        ELSE SubSeq(events, startIndex + 1, endIndex)

renderTradeTable(events, page) ==
    LET items == pageItems(events, page)
    IN  [i \in 1..Len(items) |-> items[i].timestamp]

\* The marker store and trade list as one value
Store ==
    [ markers |-> currentMarkers, layer |-> chartMarkers, events |-> allTradeEvents,
      page |-> currentPage, inputs |-> rowInputs, alert |-> NoAlert,
      status |-> chartStatus ]

\* chartApi.setMarkers resetting the list on an empty batch without handing
\* the empty list to the chart
chartApi_setMarkers_nolayer(st, events, timeframe, clock) ==
    IF events = <<>>
    THEN [st EXCEPT !.markers = <<>>]
    ELSE LET evs == ensureIds(events, "bt", clock)
             ms == sortMarkers(toMarkers(evs, timeframe, "Trade"))
             sorted == sortEventsDesc(evs)
         IN  [st EXCEPT !.markers = ms, !.layer = ms, !.events = sorted,
                        !.page = 1, !.inputs = renderTradeTable(sorted, 1)]

\* chartApi.setMarkers without the reset of currentMarkers: the new markers
\* are pushed after the ones in the list
chartApi_setMarkers_append(st, events, timeframe, clock) ==
    IF events = <<>>
    THEN [st EXCEPT !.markers = <<>>, !.layer = <<>>]
    ELSE LET evs == ensureIds(events, "bt", clock)
             ms == sortMarkers(st.markers \o toMarkers(evs, timeframe, "Trade"))
             sorted == sortEventsDesc(evs)
         IN  [st EXCEPT !.markers = ms, !.layer = ms, !.events = sorted,
                        !.page = 1, !.inputs = renderTradeTable(sorted, 1)]

\* window.chartApi.setMarkers(events)
chartApi_setMarkers(st, events, timeframe, clock) ==
    IF events = <<>>
    THEN [st EXCEPT !.markers = <<>>, !.layer = <<>>]
    ELSE LET evs == ensureIds(events, "bt", clock)
             ms == sortMarkers(toMarkers(evs, timeframe, "Trade"))
             sorted == sortEventsDesc(evs)
         IN  [st EXCEPT !.markers = ms, !.layer = ms, !.events = sorted,
                        !.page = 1, !.inputs = renderTradeTable(sorted, 1)]

\* The marker part of loadChartData (`// Update Markers`); data.markers may
\* be absent
loadMarkers(st, data, timeframe, clock) ==
    IF Has(data, "markers")
    THEN LET evs == ensureIds(data.markers, "gen", clock)
             ms == toMarkers(evs, timeframe, "undefined")
             sorted == sortEventsDesc(evs)
         IN  [st EXCEPT !.markers = ms, !.layer = ms, !.events = sorted,
                        !.page = 1, !.inputs = renderTradeTable(sorted, 1)]
    ELSE [st EXCEPT !.markers = <<>>, !.layer = <<>>, !.events = <<>>,
                    !.inputs = renderTradeTable(<<>>, st.page)]

\* Index of the first element of seq with the given id (findIndex / find), 0
\* when there is none
findIndexById(seq, idField, id) ==
    IF \E i \in 1..Len(seq) : seq[i][idField] = id
    THEN CHOOSE i \in 1..Len(seq) :
            /\ seq[i][idField] = id
            /\ \A j \in 1..(i - 1) : seq[j][idField] # id
    ELSE 0

\* timeInput.onchange failing silently when the marker is not found
timeInput_onchange_silent(st, k, newTime, timeframe) ==
    LET idx == (st.page - 1) * itemsPerPage + k
        event == st.events[idx]
        typed == [st EXCEPT !.inputs[k] = newTime]
        markerIndex == findIndexById(st.markers, "id", event.event_id)
        originalIndex == findIndexById(st.events, "event_id", event.event_id)
        evs1 == [st.events EXCEPT ![idx].timestamp = newTime]
        evs2 == [evs1 EXCEPT ![originalIndex].timestamp = newTime]
        ms == sortMarkers([st.markers EXCEPT
                              ![markerIndex].time = markerTime(newTime, timeframe)])
    IN  IF markerIndex # 0
        THEN [typed EXCEPT !.markers = ms, !.layer = ms, !.events = evs2,
                           !.status = "marker time changed"]
        ELSE [typed EXCEPT !.events = evs1]

\* timeInput.onchange giving the edited marker a new id
timeInput_onchange_reid(st, k, newTime, timeframe) ==
    LET idx == (st.page - 1) * itemsPerPage + k
        event == st.events[idx]
        typed == [st EXCEPT !.inputs[k] = newTime]
        markerIndex == findIndexById(st.markers, "id", event.event_id)
        originalIndex == findIndexById(st.events, "event_id", event.event_id)
        evs1 == [st.events EXCEPT ![idx].timestamp = newTime]
        evs2 == [evs1 EXCEPT ![originalIndex].timestamp = newTime]
        ms == sortMarkers([st.markers EXCEPT
                              ![markerIndex].time = markerTime(newTime, timeframe),
                              ![markerIndex].id = <<"edited", newTime, 0>>])
    IN  IF markerIndex # 0
        THEN [typed EXCEPT !.markers = ms, !.layer = ms, !.events = evs2,
                           !.status = "marker time changed"]
        ELSE [typed EXCEPT !.alert = "marker not found"]

\* timeInput.onchange of the input of row k of the trade list (the change
\* event dispatched on the input to which the handler was assigned), the
\* user having entered newTime; timeframe is currentChartTimeframe. An
\* emptied input returns at once and is not modelled.
timeInput_onchange(st, k, newTime, timeframe) ==
    LET idx == (st.page - 1) * itemsPerPage + k
        event == st.events[idx]
        typed == [st EXCEPT !.inputs[k] = newTime]
        markerIndex == findIndexById(st.markers, "id", event.event_id)
        originalIndex == findIndexById(st.events, "event_id", event.event_id)
        evs1 == [st.events EXCEPT ![idx].timestamp = newTime]
        evs2 == [evs1 EXCEPT ![originalIndex].timestamp = newTime]
        ms == sortMarkers([st.markers EXCEPT
                              ![markerIndex].time = markerTime(newTime, timeframe)])
    IN  IF markerIndex # 0
        THEN [typed EXCEPT !.markers = ms, !.layer = ms, !.events = evs2,
                           !.status = "marker time changed"]
        ELSE [typed EXCEPT !.alert = "marker not found"]

\* btnDebugMarker click: the time is read from the first row's input; without
\* rows nothing is added
debugMarker(st, timeframe, clock) ==
    IF st.inputs = <<>> THEN st
    ELSE LET m == [ time |-> markerTime(st.inputs[1], timeframe),
                    position |-> "aboveBar", color |-> "#FFFF00",
                    shape |-> "arrowDown", text |-> "DEBUG",
                    id |-> <<"debug_manual", clock, 0>> ]
             ms == Append(st.markers, m)
         IN  [st EXCEPT !.markers = ms, !.layer = ms]

\* ------------------------------------------------------------------ page state
EmptyPanel ==
    [ qty |-> "-", avg |-> "-", buyAmt |-> "-", evalAmt |-> "-", evalPnl |-> "-",
      pnlClass |-> "value", rate |-> "-", rateClass |-> "value", tradeCount |-> "-" ]

EmptyTable == [rows |-> <<>>, touched |-> NoRow]

NoSel == [sym |-> "", tf |-> ""]
Periods == {5, 10, 20, 60, 120, 200}

\* The chart popup after DOMContentLoaded: hidden, every series empty and
\* visible (a series is created with visible = true), no request sent
Intervals == {"5m", "D"}
NoInterval == ""
EmptySeries == [candles |-> NoSel, ma |-> [p \in Periods |-> NoSel]]

\* ------------------------------------------------------------------ dashboard
Positions == {"P1", "P2"}     \* symbols the portfolio may hold

\* a freshly rendered sell button (renderer of updateStatus: text "매도")
FreshButton == [disabled |-> FALSE, innerText |-> "sell"]

\* the dashboard after the first updateStatus of the page's init: the engine
\* is stopped and the portfolio holds every position
DashInit ==
    /\ sellButtons = [p \in Positions |-> FreshButton]
    /\ sellRequests = <<>>
    /\ statusPolls = 0
    /\ statusIndicator = "status-stopped"
    /\ btnStart = [textContent |-> "start", disabled |-> FALSE]
    /\ btnStopDisabled = TRUE
    /\ controls = <<>>

\* ------------------------------------------------------------------ strategy editor
NoStrategy == ""
NoMeta == [absent |-> TRUE]          \* fullConfig._meta undefined
EmptyMeta == [absent |-> FALSE]      \* fullConfig._meta = {}

\* the strategy bodies: one the server sent, the template of createNewStrategy
ServerBody == "server"
TemplateBody == "template"

\* Object.keys(fullConfig).filter(k => k !== '_meta')
KeySet(cfg) == {cfg[i].key : i \in 1..Len(cfg)}

\* the configurations GET /api/lab1/config answers with: no strategy, one or
\* two, in either key order
ServerConfigs ==
    {<<>>,
     <<[key |-> "A", body |-> ServerBody]>>,
     <<[key |-> "A", body |-> ServerBody], [key |-> "B", body |-> ServerBody]>>,
     <<[key |-> "B", body |-> ServerBody], [key |-> "A", body |-> ServerBody]>>}

\* its _meta: absent, or naming one of the strategies
ServerMetas(cfg) == {NoMeta} \cup {[active_strategy |-> k] : k \in KeySet(cfg)}

\* the module variables as declared (let fullConfig = {}, currentStrategy =
\* null, activeStrategy = null) while initConfigPage awaits the configuration
EditorInit ==
    /\ fullConfig = <<>>
    /\ meta = NoMeta
    /\ currentStrategy = NoStrategy
    /\ activeStrategy = NoStrategy
    /\ configLoading = TRUE
    /\ saves = <<>>

\* no export requested; dashboard and editor as their pages' scripts leave them
OtherInit ==
    /\ exportPending = <<>>
    /\ DashInit
    /\ EditorInit

PopupInit ==
    /\ currentSymbol = NoSymbol
    /\ currentInterval = "5m"
    /\ maVisible = [p \in Periods |-> TRUE]
    /\ loaderShown = FALSE
    /\ popupFetches = <<>>
    /\ popupSeries = EmptySeries

\* The chart page after DOMContentLoaded: empty chart, no request sent
ChartFirst ==
    [ currentMarkers |-> <<>>, chartMarkers |-> <<>>, allTradeEvents |-> <<>>,
      currentPage |-> 1, rowInputs |-> <<>>, chartStatus |-> "",
      currentChartTimeframe |-> "1m", chartFetches |-> <<>>,
      series |-> [candles |-> NoSel, volume |-> NoSel, rsi |-> NoSel,
                  ma |-> [p \in Periods |-> NoSel]],
      now |-> 0, requestedSymbol |-> NoSymbol ]

ChartIs(c) ==
    /\ currentMarkers = c.currentMarkers
    /\ chartMarkers = c.chartMarkers
    /\ allTradeEvents = c.allTradeEvents
    /\ currentPage = c.currentPage
    /\ rowInputs = c.rowInputs
    /\ chartStatus = c.chartStatus
    /\ currentChartTimeframe = c.currentChartTimeframe
    /\ chartFetches = c.chartFetches
    /\ series = c.series
    /\ now = c.now
    /\ requestedSymbol = c.requestedSymbol

ChartInit == ChartIs(ChartFirst)

\* the chart page left alone (the specifications of the backtest page)
ChartIdle == ChartInit /\ tz = 0

\* The backtest page after initBacktest: nothing loaded, nothing running, the
\* run button waiting for the data check to enable it
BtInit ==
    /\ btnRunDisabled = TRUE
    /\ statusText = ""
    /\ progressText = "0%"
    /\ panel = EmptyPanel
    /\ lastBacktestResult = NoResult
    /\ sockets = [s \in 1..MaxSessions |-> NoSocket]
    /\ form = "A"
    /\ checks = [c \in 1..MaxChecks |-> [pc |-> "idle", sym |-> NoSymbol]]

\* ------------------------------------------------------------------ SpecTable
\* The bar table alone: any baseline load followed by any events, in any order.
TableInit ==
    /\ BtInit
    /\ alertMsg = NoAlert
    /\ table = EmptyTable
    /\ tableFor = NoSymbol
    /\ lastEvent = NoEvent
    /\ ChartIdle
    /\ PopupInit
    /\ OtherInit

TLoad(sym) ==
    /\ UNCHANGED <<chartVars, popupVars, otherVars>>
    /\ table' = renderDataTable(BaselineOf(sym))
    /\ tableFor' = sym
    /\ lastEvent' = NoEvent
    /\ UNCHANGED <<btVars, alertMsg>>

TApply(ev) ==
    /\ UNCHANGED <<chartVars, popupVars, otherVars>>
    /\ ~updateTableRowThrows(ev)
    /\ table' = updateTableRow(table, ev)
    /\ lastEvent' = ev
    /\ UNCHANGED <<tableFor, btVars, alertMsg>>

TableNext ==
    \/ \E sym \in Datasets : TLoad(sym)
    \/ \E ev \in TradeEvents : TApply(ev)

SpecTable == TableInit /\ [][TableNext]_vars

\* ------------------------------------------------------------------ stream messages
\* progress payloads (msg.data)
P10 == [percent |-> 10, qty |-> 10, avg_price |-> 1000, buy_amt |-> 10000,
        eval_amt |-> 10100, eval_pnl |-> 100, return_rate |-> 1, trade_count |-> 1]
P55 == [percent |-> 55, qty |-> 0, avg_price |-> 0, buy_amt |-> 0,
        eval_amt |-> 0, eval_pnl |-> -300, return_rate |-> -3, trade_count |-> 2]
PNoRate == [percent |-> 100, qty |-> 5, avg_price |-> 900, buy_amt |-> 4500,
            eval_amt |-> 4500, eval_pnl |-> 0, trade_count |-> 3]

Payloads == {P10, P55}

\* result objects (msg.result)
FinalMetrics == [qty |-> 0, avg_price |-> 0, buy_amt |-> 0, eval_amt |-> 0,
                 eval_pnl |-> 320, return_rate |-> 3, trade_count |-> 4]
RLogs == [metrics |-> FinalMetrics, detailed_logs |-> <<EvBuy, EvLoss>>,
          history |-> <<EvLoss>>]
RHistory == [metrics |-> FinalMetrics, history |-> <<EvIntraday>>]
RBare == [metrics |-> FinalMetrics]
RBadLog == [metrics |-> FinalMetrics, detailed_logs |-> <<EvLoss, EvNoTimestamp, EvBuy>>]

Results == {RLogs, RBare}

StreamEvents == {EvBuy}

Messages ==
    {[type |-> "progress", data |-> d] : d \in Payloads}
    \cup {[type |-> "trade_event", data |-> e] : e \in StreamEvents}
    \cup {[type |-> "result", result |-> r] : r \in Results}
    \cup {[type |-> "error", message |-> "failed"], [type |-> "heartbeat"]}

\* ------------------------------------------------------------------ stream handlers
\* updateRealtimeMetrics(d) on the panel p.  d.return_rate.toFixed throws when
\* the payload has no return_rate: the cells set before that line keep their
\* new text, the rest is not reached.
updateRealtimeMetricsThrows(d) == ~Has(d, "return_rate")

updateRealtimeMetrics_skipZero(p, d) ==
    [p EXCEPT !.qty = IF d.qty = 0 THEN @ ELSE formatComma(d.qty),
              !.avg = IF d.avg_price = 0 THEN @ ELSE formatComma(d.avg_price),
              !.buyAmt = formatComma(d.buy_amt),
              !.evalAmt = formatComma(d.eval_amt),
              !.evalPnl = formatComma(d.eval_pnl),
              !.pnlClass = IF d.eval_pnl > 0 THEN "value pnl-positive"
                           ELSE IF d.eval_pnl < 0 THEN "value pnl-negative"
                           ELSE "value ",
              !.rate = toFixed2(d.return_rate) \o "%",
              !.rateClass = IF d.return_rate >= 0 THEN "value pnl-positive"
                            ELSE "value pnl-negative",
              !.tradeCount = ToString(d.trade_count)]

updateRealtimeMetrics(p, d) ==
    LET first ==
          [p EXCEPT !.qty = formatComma(d.qty),
                    !.avg = formatComma(d.avg_price),
                    !.buyAmt = formatComma(d.buy_amt),
                    !.evalAmt = formatComma(d.eval_amt),
                    !.evalPnl = formatComma(d.eval_pnl),
                    !.pnlClass = IF d.eval_pnl > 0 THEN "value pnl-positive"
                                 ELSE IF d.eval_pnl < 0 THEN "value pnl-negative"
                                 ELSE "value "]
    IN  IF updateRealtimeMetricsThrows(d) THEN first
        ELSE [first EXCEPT !.rate = toFixed2(d.return_rate) \o "%",
                           !.rateClass = IF d.return_rate >= 0 THEN "value pnl-positive"
                                         ELSE "value pnl-negative",
                           !.tradeCount = ToString(d.trade_count)]

ZeroMetrics == [qty |-> 0, avg_price |-> 0, buy_amt |-> 0, eval_amt |-> 0,
                eval_pnl |-> 0, return_rate |-> 0, trade_count |-> 0]

\* logs.forEach(log => updateTableRow(log)): stops at the first entry that throws
RECURSIVE forEachUpdate(_, _)
forEachUpdate(t, logs) ==
    IF logs = <<>> THEN [table |-> t, threw |-> FALSE]
    ELSE IF updateTableRowThrows(Head(logs)) THEN [table |-> t, threw |-> TRUE]
    ELSE forEachUpdate(updateTableRow(t, Head(logs)), Tail(logs))

\* What one ws.onmessage call leaves behind, from the page state before it.
\* close: ws.close() was called.
Page ==
    [ progress |-> progressText, panel |-> panel, result |-> lastBacktestResult,
      table |-> table, status |-> statusText, btn |-> btnRunDisabled,
      alert |-> NoAlert, close |-> FALSE ]

onProgress(pg, msg) ==
    IF ~Has(msg, "data") THEN pg
    ELSE [pg EXCEPT !.progress = ToString(msg.data.percent) \o "%",
                    !.panel = updateRealtimeMetrics(pg.panel, msg.data)]

onTradeEvent(pg, msg) ==
    IF ~Has(msg, "data") \/ updateTableRowThrows(msg.data) THEN pg
    ELSE [pg EXCEPT !.table = updateTableRow(pg.table, msg.data)]

finalize(pg, msg) ==
    LET pg1 == [pg EXCEPT !.progress = "100%"]
    IN  IF ~Has(msg, "result")
        THEN [pg1 EXCEPT !.result = NoResult]     \* TypeError on msg.result.detailed_logs
        ELSE
          LET pg2 == [pg1 EXCEPT !.result = msg.result]
              logs == IF Has(msg.result, "detailed_logs") THEN msg.result.detailed_logs
                      ELSE IF Has(msg.result, "history") THEN msg.result.history
                      ELSE <<>>
              done == forEachUpdate(pg2.table, logs)
              pg3 == [pg2 EXCEPT !.table = done.table]
          IN  IF done.threw THEN pg3
              ELSE [pg3 EXCEPT !.status = "done", !.btn = FALSE, !.close = TRUE]

\* Mutant of onResult: the commented-out renderMetrics(msg.result.metrics)
\* call is live and writes the final metrics into the summary panel.
onResult_renderMetrics(pg, msg) ==
    LET r == finalize(pg, msg)
    IN  IF Has(msg, "result") /\ Has(msg.result, "metrics")
        THEN [r EXCEPT !.panel = updateRealtimeMetrics(pg.panel, msg.result.metrics)]
        ELSE r

onResult_keepProgress(pg, msg) == [finalize(pg, msg) EXCEPT !.progress = pg.progress]

\* the `msg.type === "result"` branch of ws.onmessage
onResult(pg, msg) == finalize(pg, msg)

onError(pg, msg) ==
    [pg EXCEPT !.alert = "stream error", !.status = "error", !.btn = FALSE,
               !.close = TRUE]

onmessage_strict(pg, msg) ==
    IF msg.type = "progress" THEN onProgress(pg, msg)
    ELSE IF msg.type = "trade_event" THEN onTradeEvent(pg, msg)
    ELSE IF msg.type = "result" THEN onResult(pg, msg)
    ELSE onError(pg, msg)

\* ws.onmessage: the if / else-if chain on msg.type, no final else
onmessage(pg, msg) ==
    IF msg.type = "progress" THEN onProgress(pg, msg)
    ELSE IF msg.type = "trade_event" THEN onTradeEvent(pg, msg)
    ELSE IF msg.type = "result" THEN onResult(pg, msg)
    ELSE IF msg.type = "error" THEN onError(pg, msg)
    ELSE pg

\* ws.onmessage ends with an uncaught TypeError: payload.percent on a missing
\* data, d.return_rate.toFixed, trade.timestamp.trim, msg.result.detailed_logs
onmessageThrows(pg, msg) ==
    IF msg.type = "progress"
    THEN ~Has(msg, "data") \/ updateRealtimeMetricsThrows(msg.data)
    ELSE IF msg.type = "trade_event"
    THEN ~Has(msg, "data") \/ updateTableRowThrows(msg.data)
    ELSE IF msg.type = "result"
    THEN \/ ~Has(msg, "result")
         \/ LET logs == IF Has(msg.result, "detailed_logs") THEN msg.result.detailed_logs
                         ELSE IF Has(msg.result, "history") THEN msg.result.history
                         ELSE <<>>
            IN  forEachUpdate(pg.table, logs).threw
    ELSE FALSE

\* ------------------------------------------------------------------ Spec: the backtest page
Init ==
    /\ BtInit
    /\ alertMsg = NoAlert
    /\ table = EmptyTable
    /\ tableFor = NoSymbol
    /\ lastEvent = NoEvent
    /\ ChartIdle
    /\ PopupInit
    /\ OtherInit

Live(s) == sockets[s].state \in {"connecting", "open"}

\* alert() is modal: no handler runs until it is dismissed
DismissAlert ==
    /\ UNCHANGED <<chartVars, popupVars, otherVars>>
    /\ alertMsg # NoAlert
    /\ alertMsg' = NoAlert
    /\ UNCHANGED <<btVars, tableVars>>

\* The user picks another symbol in the form
EditForm(sym) ==
    /\ UNCHANGED <<chartVars, popupVars, otherVars>>
    /\ alertMsg = NoAlert
    /\ sym # form
    /\ form' = sym
    /\ UNCHANGED <<btnRunDisabled, statusText, progressText, panel, lastBacktestResult,
                   sockets, checks, tableVars, alertMsg>>

\* btnCheck click: the handler reads the form and awaits /backtest/check_data
ClickCheck(c) ==
    /\ UNCHANGED <<chartVars, popupVars, otherVars>>
    /\ alertMsg = NoAlert
    /\ checks[c].pc = "idle"
    /\ \A d \in 1..(c - 1) : checks[d].pc # "idle"
    /\ checks' = [checks EXCEPT ![c] = [pc |-> "check", sym |-> form]]
    /\ statusText' = "checking data"
    /\ UNCHANGED <<btnRunDisabled, progressText, panel, lastBacktestResult, sockets,
                   form, tableVars, alertMsg>>

\* check_data resolves: exists -> load the table data, else download first
CheckResolved(c, exists) ==
    /\ UNCHANGED <<chartVars, popupVars, otherVars>>
    /\ alertMsg = NoAlert
    /\ checks[c].pc = "check"
    /\ checks' = [checks EXCEPT ![c].pc = IF exists THEN "data" ELSE "download"]
    /\ statusText' = IF exists THEN "loading data" ELSE "downloading data"
    /\ UNCHANGED <<btnRunDisabled, progressText, panel, lastBacktestResult, sockets,
                   form, tableVars, alertMsg>>

\* download resolves: status ok -> load the table data, else throw
DownloadResolved(c, ok) ==
    /\ UNCHANGED <<chartVars, popupVars, otherVars>>
    /\ alertMsg = NoAlert
    /\ checks[c].pc = "download"
    /\ checks' = [checks EXCEPT ![c] = IF ok THEN [@ EXCEPT !.pc = "data"]
                                       ELSE [pc |-> "idle", sym |-> NoSymbol]]
    /\ statusText' = IF ok THEN "loading data" ELSE "check error"
    /\ UNCHANGED <<btnRunDisabled, progressText, panel, lastBacktestResult, sockets,
                   form, tableVars, alertMsg>>

\* /backtest/data resolves: status ok -> renderDataTable and enable the run
\* button, else throw
DataResolved(c, ok) ==
    /\ UNCHANGED <<chartVars, popupVars, otherVars>>
    /\ alertMsg = NoAlert
    /\ checks[c].pc = "data"
    /\ checks' = [checks EXCEPT ![c] = [pc |-> "idle", sym |-> NoSymbol]]
    /\ IF ok
       THEN /\ table' = renderDataTable(BaselineOf(checks[c].sym))
            /\ tableFor' = checks[c].sym
            /\ lastEvent' = NoEvent
            /\ statusText' = "data ready"
            /\ btnRunDisabled' = FALSE
       ELSE /\ statusText' = "check error"
            /\ UNCHANGED <<btnRunDisabled, tableVars>>
    /\ UNCHANGED <<progressText, panel, lastBacktestResult, sockets, form, alertMsg>>

FetchRejected_enable(c) ==
    /\ UNCHANGED <<chartVars, popupVars, otherVars>>
    /\ alertMsg = NoAlert
    /\ checks[c].pc # "idle"
    /\ checks' = [checks EXCEPT ![c] = [pc |-> "idle", sym |-> NoSymbol]]
    /\ statusText' = "check error"
    /\ btnRunDisabled' = FALSE
    /\ UNCHANGED <<progressText, panel, lastBacktestResult, sockets, form, tableVars,
                   alertMsg>>

\* any of the three fetches rejects (network failure): the catch block
FetchRejected(c) ==
    /\ UNCHANGED <<chartVars, popupVars, otherVars>>
    /\ alertMsg = NoAlert
    /\ checks[c].pc # "idle"
    /\ checks' = [checks EXCEPT ![c] = [pc |-> "idle", sym |-> NoSymbol]]
    /\ statusText' = "check error"
    /\ UNCHANGED <<btnRunDisabled, progressText, panel, lastBacktestResult, sockets,
                   form, tableVars, alertMsg>>

\* btnRun click -> runBacktestWebSocket(): a disabled button delivers no click
runBacktestWebSocket(s) ==
    /\ UNCHANGED <<chartVars, popupVars, otherVars>>
    /\ alertMsg = NoAlert
    /\ ~btnRunDisabled
    /\ ~Live(s)
    /\ \A r \in 1..(s - 1) : Live(r)
    /\ btnRunDisabled' = TRUE
    /\ statusText' = "running"
    /\ panel' = updateRealtimeMetrics(panel, ZeroMetrics)
    /\ lastBacktestResult' = NoResult
    /\ sockets' = [sockets EXCEPT ![s] = [state |-> "connecting", sent |-> <<>>]]
    /\ UNCHANGED <<progressText, form, checks, tableVars, alertMsg>>

\* the configuration ws.onopen builds: the values the form inputs hold when
\* the handler runs
onopenConfig == form

\* ws.onopen: the configuration is read from the form and sent
WsOpen(s) ==
    /\ UNCHANGED <<chartVars, popupVars, otherVars>>
    /\ alertMsg = NoAlert
    /\ sockets[s].state = "connecting"
    /\ sockets' = [sockets EXCEPT ![s].state = "open", ![s].sent = <<onopenConfig>>]
    /\ UNCHANGED <<btnRunDisabled, statusText, progressText, panel, lastBacktestResult,
                   form, checks, tableVars, alertMsg>>

\* ws.onmessage: the server answers a session whose configuration it received;
\* a socket that is not OPEN delivers no message event
WsMessage(s, msg) ==
    /\ UNCHANGED <<chartVars, popupVars, otherVars>>
    /\ alertMsg = NoAlert
    /\ sockets[s].state = "open"
    /\ sockets[s].sent # <<>>
    /\ LET pg == onmessage(Page, msg)
       IN  /\ progressText' = pg.progress
           /\ panel' = pg.panel
           /\ lastBacktestResult' = pg.result
           /\ table' = pg.table
           /\ statusText' = pg.status
           /\ btnRunDisabled' = pg.btn
           /\ alertMsg' = pg.alert
           /\ sockets' = IF pg.close THEN [sockets EXCEPT ![s] = NoSocket]
                         ELSE sockets
    /\ lastEvent' = NoEvent
    /\ UNCHANGED <<form, checks, tableFor>>

WsError_reconnect(s) ==
    /\ UNCHANGED <<chartVars, popupVars, otherVars>>
    /\ alertMsg = NoAlert
    /\ Live(s)
    /\ sockets' = [sockets EXCEPT ![s] = [state |-> "connecting", sent |-> <<>>]]
    /\ statusText' = "transport error"
    /\ btnRunDisabled' = FALSE
    /\ UNCHANGED <<progressText, panel, lastBacktestResult, form, checks, tableVars,
                   alertMsg>>

\* ws.onerror: the connection failed or broke; the browser closes the socket
WsError(s) ==
    /\ UNCHANGED <<chartVars, popupVars, otherVars>>
    /\ alertMsg = NoAlert
    /\ Live(s)
    /\ sockets' = [sockets EXCEPT ![s] = NoSocket]
    /\ statusText' = "transport error"
    /\ btnRunDisabled' = FALSE
    /\ UNCHANGED <<progressText, panel, lastBacktestResult, form, checks, tableVars,
                   alertMsg>>

\* the server closes the connection cleanly: there is no onclose handler
WsClosedByServer(s) ==
    /\ UNCHANGED <<chartVars, popupVars, otherVars>>
    /\ alertMsg = NoAlert
    /\ sockets[s].state = "open"
    /\ sockets' = [sockets EXCEPT ![s] = NoSocket]
    /\ UNCHANGED <<btnRunDisabled, statusText, progressText, panel, lastBacktestResult,
                   form, checks, tableVars, alertMsg>>

Next ==
    \/ DismissAlert
    \/ \E c \in 1..MaxChecks : ClickCheck(c)
    \/ \E c \in 1..MaxChecks, exists \in BOOLEAN : CheckResolved(c, exists)
    \/ \E c \in 1..MaxChecks, ok \in BOOLEAN : DownloadResolved(c, ok)
    \/ \E c \in 1..MaxChecks, ok \in BOOLEAN : DataResolved(c, ok)
    \/ \E c \in 1..MaxChecks : FetchRejected(c)
    \/ \E s \in 1..MaxSessions : runBacktestWebSocket(s)
    \/ \E s \in 1..MaxSessions : WsOpen(s)
    \/ \E s \in 1..MaxSessions, msg \in Messages : WsMessage(s, msg)
    \/ \E s \in 1..MaxSessions : WsError(s)
    \/ \E s \in 1..MaxSessions : WsClosedByServer(s)

\* The page with the form left as it is (symbol A)
Spec == Init /\ [][Next]_vars

\* The page when the server's messages may lack payload fields
MalformedMessages ==
    { [type |-> "progress", data |-> PNoRate],
      [type |-> "trade_event", data |-> EvNoTimestamp],
      [type |-> "result"],
      [type |-> "result", result |-> RBadLog] }

NextPayload ==
    \/ Next
    \/ \E s \in 1..MaxSessions, msg \in MalformedMessages : WsMessage(s, msg)

SpecPayload == Init /\ [][NextPayload]_vars

\* ------------------------------------------------------------------ SpecExport
\* The backtest page with the Excel download button.  Each socket also
\* records whether it is the one created by the latest run.
MaxExports == 1

\* runBacktestWebSocket(), the new socket marked as the latest run's and the
\* sockets of earlier runs as not
RunTracked(s) ==
    /\ UNCHANGED <<chartVars, popupVars, otherVars>>
    /\ alertMsg = NoAlert
    /\ ~btnRunDisabled
    /\ ~Live(s)
    /\ \A r \in 1..(s - 1) : Live(r)
    /\ btnRunDisabled' = TRUE
    /\ statusText' = "running"
    /\ panel' = updateRealtimeMetrics(panel, ZeroMetrics)
    /\ lastBacktestResult' = NoResult
    /\ sockets' = [t \in 1..MaxSessions |->
                     IF t = s THEN [state |-> "connecting", sent |-> <<>>, latest |-> TRUE]
                     ELSE IF Live(t) THEN [sockets[t] EXCEPT !.latest = FALSE]
                     ELSE sockets[t]]
    /\ UNCHANGED <<progressText, form, checks, tableVars, alertMsg>>

\* the guard of the export handler: nothing stored, or a result with neither
\* history nor detailed_logs
exportRefused(result) ==
    \/ result = NoResult
    \/ ~Has(result, "history") /\ ~Has(result, "detailed_logs")

\* lastBacktestResult.detailed_logs || lastBacktestResult.history
exportData(result) ==
    IF Has(result, "detailed_logs") THEN result.detailed_logs ELSE result.history

\* btnExcel click: refusal alert, or confirm() and the request up to its await
ClickExport(confirmed) ==
    /\ alertMsg = NoAlert
    /\ Len(exportPending) < MaxExports
    /\ IF exportRefused(lastBacktestResult)
       THEN /\ alertMsg' = "run a backtest first"
            /\ UNCHANGED <<statusText, exportPending>>
       ELSE IF confirmed
       THEN /\ statusText' = "creating excel"
            /\ exportPending' = Append(exportPending,
                                       [history |-> exportData(lastBacktestResult),
                                        config |-> form])
            /\ UNCHANGED alertMsg
       ELSE UNCHANGED <<statusText, exportPending, alertMsg>>
    /\ UNCHANGED <<btnRunDisabled, progressText, panel, lastBacktestResult, sockets,
                   form, checks, tableVars, chartVars, popupVars, dashVars, editorVars>>

\* the export response: the file is saved, or the catch block
ExportResolved(ok) ==
    /\ alertMsg = NoAlert
    /\ exportPending # <<>>
    /\ exportPending' = Tail(exportPending)
    /\ statusText' = IF ok THEN "download done" ELSE "download failed"
    /\ alertMsg' = IF ok THEN NoAlert ELSE "download error"
    /\ UNCHANGED <<btnRunDisabled, progressText, panel, lastBacktestResult, sockets,
                   form, checks, tableVars, chartVars, popupVars, dashVars, editorVars>>

NextExport ==
    \/ DismissAlert
    \/ \E c \in 1..MaxChecks : ClickCheck(c)
    \/ \E c \in 1..MaxChecks, exists \in BOOLEAN : CheckResolved(c, exists)
    \/ \E c \in 1..MaxChecks, ok \in BOOLEAN : DownloadResolved(c, ok)
    \/ \E c \in 1..MaxChecks, ok \in BOOLEAN : DataResolved(c, ok)
    \/ \E c \in 1..MaxChecks : FetchRejected(c)
    \/ \E s \in 1..MaxSessions : RunTracked(s)
    \/ \E s \in 1..MaxSessions : WsOpen(s)
    \/ \E s \in 1..MaxSessions, msg \in Messages : WsMessage(s, msg)
    \/ \E s \in 1..MaxSessions : WsError(s)
    \/ \E s \in 1..MaxSessions : WsClosedByServer(s)
    \/ \E confirmed \in BOOLEAN : ClickExport(confirmed)
    \/ \E ok \in BOOLEAN : ExportResolved(ok)

SpecExport == Init /\ [][NextExport]_vars

\* The page with the user also editing the form between the other events
NextConfig ==
    \/ Next
    \/ \E sym \in Symbols : EditForm(sym)

SpecConfig == Init /\ [][NextConfig]_vars

\* ------------------------------------------------------------------ chart page: server data
Timeframes == {"1m", "D"}

\* data.markers of /api/chart/data and the event lists given to chartApi
M1 == [event_id |-> <<"srv", 1, 0>>, timestamp |-> 1, side |-> "BUY", qty |-> 10,
       price |-> 100, event_type |-> "ORDER"]
M3 == [event_id |-> <<"srv", 3, 0>>, timestamp |-> 3, side |-> "SELL", qty |-> 10,
       price |-> 110, event_type |-> "ORDER"]
M1NoId == [timestamp |-> 1, qty |-> 0, price |-> 0]
M2NoId == [timestamp |-> 2, side |-> "BUY", qty |-> 5, price |-> 105]

BatchSorted == <<M1, M3>>
BatchUnsorted == <<M3, M1>>
BatchNoId == <<M2NoId, M1NoId>>

Batches == {<<>>, BatchSorted, BatchUnsorted, BatchNoId}
ServerBatches == {<<>>, BatchSorted, BatchUnsorted, BatchNoId}

\* parsed /api/chart/data bodies: which series come non-empty, and the markers
ChartData ==
    {[candles |-> TRUE, rsi |-> TRUE, ma |-> Periods, markers |-> b] : b \in ServerBatches}
    \cup {[candles |-> TRUE, rsi |-> TRUE, ma |-> Periods],
          [candles |-> FALSE, rsi |-> FALSE, ma |-> {5}, markers |-> <<>>]}

ChartResponses == ChartData \cup {[status |-> "error"]}

\* ------------------------------------------------------------------ SpecChart
MaxFetches == 2       \* /api/chart/data requests in flight at once
MaxClock == 1         \* Date.now() readings 0..MaxClock
MaxDebug == 1         \* debug markers in the list at once

\* Date.now() is read only for an event that has no event_id; the clock does
\* not run backwards
Clock(events) ==
    IF \E i \in 1..Len(events) : ~Has(events[i], "event_id")
    THEN {c \in now..(now + 1) : c <= MaxClock}
    ELSE {now}

SetStore(st) ==
    /\ currentMarkers' = st.markers
    /\ chartMarkers' = st.layer
    /\ allTradeEvents' = st.events
    /\ currentPage' = st.page
    /\ rowInputs' = st.inputs
    /\ chartStatus' = st.status
    /\ alertMsg' = st.alert

\* btnLoad click with the inputs showing (sym, tf): loadChartData up to its
\* await fetch(...)
ClickLoad(sym, tf) ==
    /\ alertMsg = NoAlert
    /\ Len(chartFetches) < MaxFetches
    /\ currentChartTimeframe' = tf
    /\ chartStatus' = "api call started"
    /\ requestedSymbol' = sym
    /\ chartFetches' = Append(chartFetches, [sym |-> sym, tf |-> tf])
    /\ UNCHANGED <<currentMarkers, chartMarkers, allTradeEvents, currentPage, rowInputs,
                   series, now, tz, alertMsg, btVars, tableVars, popupVars, otherVars>>

RemoveAt(seq, i) == SubSeq(seq, 1, i - 1) \o SubSeq(seq, i + 1, Len(seq))

\* the series part of loadChartData for a parsed body
loadSeries(sr, data, sel) ==
    [ candles |-> IF data.candles THEN sel ELSE sr.candles,
      volume  |-> IF data.candles THEN sel ELSE sr.volume,
      rsi     |-> IF data.rsi THEN sel ELSE sr.rsi,
      ma      |-> [p \in Periods |->
                     IF Has(data, "ma") /\ p \in data.ma THEN sel ELSE sr.ma[p]] ]

\* loadChartData after its awaits: the response of request i arrived with a
\* parsed body
ChartResolved(i, resp) ==
    /\ alertMsg = NoAlert
    /\ i \in 1..Len(chartFetches)
    /\ chartFetches' = RemoveAt(chartFetches, i)
    /\ IF Has(resp, "status")
       THEN /\ chartStatus' = "server error"
            /\ alertMsg' = "chart server error"
            /\ UNCHANGED <<currentMarkers, chartMarkers, allTradeEvents, currentPage,
                           rowInputs, series, now>>
       ELSE \E clock \in Clock(IF Has(resp, "markers") THEN resp.markers ELSE <<>>) :
            LET f == chartFetches[i]
                base == [Store EXCEPT
                           !.status = IF resp.candles THEN "rendered" ELSE "no candles",
                           !.alert = IF resp.candles THEN NoAlert ELSE "no data"]
            IN  /\ series' = loadSeries(series, resp, [sym |-> f.sym, tf |-> f.tf])
                /\ SetStore(loadMarkers(base, resp, f.tf, clock))
                /\ now' = clock
    /\ UNCHANGED <<currentChartTimeframe, requestedSymbol, tz, btVars, tableVars, popupVars, otherVars>>

\* the fetch rejects or the response is not ok: the catch block
ChartFailed(i) ==
    /\ alertMsg = NoAlert
    /\ i \in 1..Len(chartFetches)
    /\ chartFetches' = RemoveAt(chartFetches, i)
    /\ chartStatus' = "load error"
    /\ alertMsg' = "chart load failed"
    /\ UNCHANGED <<currentMarkers, chartMarkers, allTradeEvents, currentPage, rowInputs,
                   series, now, currentChartTimeframe, requestedSymbol, tz, btVars,
                   tableVars, popupVars, otherVars>>

\* an external caller replaces the markers through window.chartApi
SetMarkers(events) ==
    /\ alertMsg = NoAlert
    /\ \E clock \in Clock(events) :
          /\ SetStore(chartApi_setMarkers(Store, events, currentChartTimeframe, clock))
          /\ now' = clock
    /\ UNCHANGED <<chartFetches, series, currentChartTimeframe, requestedSymbol, tz,
                   btVars, tableVars, popupVars, otherVars>>

\* the user changes the time input of row k of the trade list
EditTime(k, newTime) ==
    /\ alertMsg = NoAlert
    /\ k \in 1..Len(rowInputs)
    /\ newTime # rowInputs[k]
    /\ SetStore(timeInput_onchange(Store, k, newTime, currentChartTimeframe))
    /\ UNCHANGED <<chartFetches, series, currentChartTimeframe, now, requestedSymbol,
                   tz, btVars, tableVars, popupVars, otherVars>>

\* btnDebugMarker click
DebugMarker ==
    /\ alertMsg = NoAlert
    /\ Cardinality({i \in 1..Len(currentMarkers) : currentMarkers[i].text = "DEBUG"})
          < MaxDebug
    /\ \E clock \in {c \in now..(now + 1) : c <= MaxClock} :
          /\ SetStore(debugMarker(Store, currentChartTimeframe, clock))
          /\ now' = clock
    /\ UNCHANGED <<chartFetches, series, currentChartTimeframe, requestedSymbol, tz,
                   btVars, tableVars, popupVars, otherVars>>

\* the backtest page left alone (the specifications of the chart page)
BacktestIdle ==
    /\ BtInit
    /\ alertMsg = NoAlert
    /\ table = EmptyTable
    /\ tableFor = NoSymbol
    /\ lastEvent = NoEvent

\* chart loads: requests and their responses in every order
SpecChartInit ==
    /\ BacktestIdle
    /\ PopupInit
    /\ OtherInit
    /\ ChartInit
    /\ tz \in 0..(DayLen - 1)

ChartNext ==
    \/ DismissAlert
    \/ \E sym \in Symbols, tf \in Timeframes : ClickLoad(sym, tf)
    \/ \E i \in 1..MaxFetches, resp \in ChartResponses : ChartResolved(i, resp)
    \/ \E i \in 1..MaxFetches : ChartFailed(i)

SpecChart == SpecChartInit /\ [][ChartNext]_vars

\* chart loads of one symbol, each answered with the same two trades, with
\* the user editing marker times and adding debug markers while requests are
\* in flight
InflightData == [candles |-> TRUE, rsi |-> TRUE, ma |-> Periods, markers |-> BatchSorted]

InflightNext ==
    \/ DismissAlert
    \/ \E tf \in Timeframes : ClickLoad("A", tf)
    \/ \E i \in 1..MaxFetches : ChartResolved(i, InflightData)
    \/ \E i \in 1..MaxFetches : ChartFailed(i)
    \/ \E k \in 1..itemsPerPage, t \in Times : EditTime(k, t)
    \/ DebugMarker

SpecInflight == SpecChartInit /\ [][InflightNext]_vars

\* ------------------------------------------------------------------ SpecPages
\* The trade list with more events than one page holds, its previous / next
\* buttons, bulk replacements and chart loads.
BatchPages ==
    [i \in 1..(itemsPerPage + 1) |->
       [event_id |-> <<"srv", i, 0>>, timestamp |-> ((i - 1) % MaxTime) + 1,
        side |-> "BUY", qty |-> i, price |-> 100, event_type |-> "ORDER"]]

PagesResponses ==
    { [candles |-> TRUE, rsi |-> TRUE, ma |-> Periods, markers |-> BatchPages],
      [candles |-> TRUE, rsi |-> TRUE, ma |-> Periods, markers |-> <<>>],
      [candles |-> TRUE, rsi |-> TRUE, ma |-> Periods] }

\* Math.ceil(allTradeEvents.length / itemsPerPage)
maxPage(events) == (Len(events) + itemsPerPage - 1) \div itemsPerPage

\* btnPrevPage click
PrevPage ==
    /\ alertMsg = NoAlert
    /\ IF currentPage > 1
       THEN /\ currentPage' = currentPage - 1
            /\ rowInputs' = renderTradeTable(allTradeEvents, currentPage - 1)
       ELSE UNCHANGED <<currentPage, rowInputs>>
    /\ UNCHANGED <<currentMarkers, chartMarkers, allTradeEvents, chartStatus,
                   currentChartTimeframe, chartFetches, series, now, requestedSymbol,
                   tz, alertMsg, btVars, tableVars, popupVars, otherVars>>

\* btnNextPage click
NextPage ==
    /\ alertMsg = NoAlert
    /\ IF currentPage < maxPage(allTradeEvents)
       THEN /\ currentPage' = currentPage + 1
            /\ rowInputs' = renderTradeTable(allTradeEvents, currentPage + 1)
       ELSE UNCHANGED <<currentPage, rowInputs>>
    /\ UNCHANGED <<currentMarkers, chartMarkers, allTradeEvents, chartStatus,
                   currentChartTimeframe, chartFetches, series, now, requestedSymbol,
                   tz, alertMsg, btVars, tableVars, popupVars, otherVars>>

PagesNext ==
    \/ DismissAlert
    \/ PrevPage
    \/ NextPage
    \/ \E b \in {BatchPages, BatchSorted, <<>>} : SetMarkers(b)
    \/ \E tf \in Timeframes : ClickLoad("A", tf)
    \/ \E i \in 1..MaxFetches, resp \in PagesResponses : ChartResolved(i, resp)
    \/ \E i \in 1..MaxFetches : ChartFailed(i)

SpecPages == SpecChartInit /\ [][PagesNext]_vars

\* marker operations on the page as it is after DOMContentLoaded, or after a
\* daily load whose fetch failed and whose alert was dismissed
AfterFailedDailyLoad ==
    [ChartFirst EXCEPT !.currentChartTimeframe = "D", !.requestedSymbol = "A",
                       !.chartStatus = "load error"]

SpecMarkersInit ==
    /\ BacktestIdle
    /\ PopupInit
    /\ OtherInit
    /\ tz \in 0..(DayLen - 1)
    /\ \E c \in {ChartFirst, AfterFailedDailyLoad} : ChartIs(c)

MarkersNext ==
    \/ DismissAlert
    \/ \E b \in Batches : SetMarkers(b)
    \/ \E k \in 1..itemsPerPage, t \in Times : EditTime(k, t)
    \/ DebugMarker

SpecMarkers == SpecMarkersInit /\ [][MarkersNext]_vars

\* ------------------------------------------------------------------ SpecPopup
\* The chart popup: openChart, updateInterval, toggleMA and the popup's own
\* loadChartData, whose responses arrive in any order.
PopupData == [candles |-> TRUE, ma |-> Periods]
PopupShortData == [candles |-> TRUE, ma |-> {5, 10, 20}]
PopupNoData == [candles |-> FALSE, ma |-> {}]
PopupError == [status |-> "error"]
PopupResponses == {PopupData, PopupShortData, PopupNoData, PopupError}

\* clearChart(): setData([]) on every series
clearChart(sr) == EmptySeries

\* the series part of the popup's loadChartData for a parsed body
popupLoadSeries(sr, data, sel) ==
    [ candles |-> IF data.candles THEN sel ELSE sr.candles,
      ma      |-> [p \in Periods |-> IF p \in data.ma THEN sel ELSE sr.ma[p]] ]

\* the visibility reset in openChart: every checkbox checked, every series
\* visible
openChart_resetVisibility(mv) == [p \in Periods |-> TRUE]

\* window.openChart(symbol, name, interval), up to the await in loadChartData
OpenChart(sym, interval) ==
    /\ Len(popupFetches) < MaxFetches
    /\ currentSymbol' = sym
    /\ currentInterval' = IF interval = NoInterval THEN currentInterval ELSE interval
    /\ maVisible' = openChart_resetVisibility(maVisible)
    /\ popupSeries' = clearChart(popupSeries)
    /\ loaderShown' = TRUE
    /\ popupFetches' = Append(popupFetches, [sym |-> sym, tf |-> currentInterval'])
    /\ UNCHANGED <<btVars, tableVars, alertMsg, chartVars, otherVars>>

\* what updateInterval does to the indicators' visibility: nothing
updateInterval_visibility(mv) == mv

\* window.updateInterval(interval), up to the await in loadChartData
UpdateInterval(interval) ==
    /\ currentSymbol # NoSymbol => Len(popupFetches) < MaxFetches
    /\ currentInterval' = interval
    /\ maVisible' = updateInterval_visibility(maVisible)
    /\ IF currentSymbol # NoSymbol
       THEN /\ popupSeries' = clearChart(popupSeries)
            /\ loaderShown' = TRUE
            /\ popupFetches' = Append(popupFetches,
                                      [sym |-> currentSymbol, tf |-> interval])
       ELSE UNCHANGED <<popupSeries, loaderShown, popupFetches>>
    /\ UNCHANGED <<currentSymbol, btVars, tableVars, alertMsg, chartVars, otherVars>>

\* window.toggleMA(p, v): the onchange of an MA checkbox
toggleMA(mv, p, v) == [mv EXCEPT ![p] = v]

ToggleMA(p, v) ==
    /\ maVisible' = toggleMA(maVisible, p, v)
    /\ UNCHANGED <<currentSymbol, currentInterval, loaderShown, popupFetches,
                   popupSeries, btVars, tableVars, alertMsg, chartVars, otherVars>>

popupLoad_showAll(mv) == [p \in Periods |-> TRUE]

\* what a response does to the indicators' visibility: nothing
popupLoad_visibility(mv) == mv

\* the popup's loadChartData after its awaits: the response of request i
\* arrived with a parsed body
PopupResolved(i, resp) ==
    /\ i \in 1..Len(popupFetches)
    /\ popupFetches' = RemoveAt(popupFetches, i)
    /\ popupSeries' = IF Has(resp, "status")
                      THEN popupSeries
                      ELSE popupLoadSeries(popupSeries, resp, popupFetches[i])
    /\ maVisible' = popupLoad_visibility(maVisible)
    /\ loaderShown' = FALSE
    /\ UNCHANGED <<currentSymbol, currentInterval, btVars, tableVars, alertMsg,
                   chartVars, otherVars>>

\* the fetch rejects or the body is not JSON: catch, then finally
PopupFailed(i) ==
    /\ i \in 1..Len(popupFetches)
    /\ popupFetches' = RemoveAt(popupFetches, i)
    /\ loaderShown' = FALSE
    /\ UNCHANGED <<currentSymbol, currentInterval, maVisible, popupSeries, btVars,
                   tableVars, alertMsg, chartVars, otherVars>>

SpecPopupInit ==
    /\ BacktestIdle
    /\ ChartIdle
    /\ PopupInit
    /\ OtherInit

PopupNext ==
    \/ \E sym \in Symbols, interval \in Intervals \cup {NoInterval} :
          OpenChart(sym, interval)
    \/ \E interval \in Intervals : UpdateInterval(interval)
    \/ \E p \in Periods, v \in BOOLEAN : ToggleMA(p, v)
    \/ \E i \in 1..MaxFetches, resp \in PopupResponses : PopupResolved(i, resp)
    \/ \E i \in 1..MaxFetches : PopupFailed(i)

SpecPopup == SpecPopupInit /\ [][PopupNext]_vars

\* ------------------------------------------------------------------ dashboard actions
MaxSells == 2         \* sellImmediate calls in flight at once
MaxPolls == 1         \* updateStatus calls in flight at once
MaxControls == 2      \* start / restart / stop handlers in flight at once

\* the bodies GET /status answers with: engine running or not, with or
\* without active strategies, with or without a portfolio
StatusData ==
    {[is_running |-> r, active_strategies |-> a] :
        r \in BOOLEAN, a \in {<<>>, <<"s1">>}}
    \cup {[is_running |-> r, active_strategies |-> a, portfolio |-> [positions |-> ps]] :
        r \in BOOLEAN, a \in {<<>>, <<"s1">>}, ps \in SUBSET Positions}

\* setInterval(updateStatus, 2000), or the setTimeout of sendControl, calls
\* updateStatus: the /status request leaves
PollTick ==
    /\ alertMsg = NoAlert
    /\ statusPolls < MaxPolls
    /\ statusPolls' = statusPolls + 1
    /\ UNCHANGED <<sellButtons, sellRequests, statusIndicator, btnStart,
                   btnStopDisabled, controls>>
    /\ UNCHANGED <<btVars, tableVars, alertMsg, chartVars, popupVars, exportPending,
                   editorVars>>

\* updateStatus, indicator part
updateStatus_indicator(data) ==
    IF data.is_running
    THEN IF Len(data.active_strategies) > 0 THEN "status-running" ELSE "status-standby"
    ELSE "status-stopped"

\* updateStatus, btn-start part: the label follows is_running and the button
\* is enabled in both branches
updateStatus_btnStart(data) ==
    [textContent |-> IF data.is_running THEN "restart" ELSE "start", disabled |-> FALSE]

\* updateStatus, positions part: tbody.innerHTML = "" and one new row, with a
\* new sell button, per position
updateStatus_positions(data) == [p \in data.portfolio.positions |-> FreshButton]

\* the buttons of the calls in flight are no longer in the document once the
\* table body is rebuilt
Detached(reqs) == [i \in 1..Len(reqs) |-> [reqs[i] EXCEPT !.attached = FALSE]]

\* updateStatus after its awaits
StatusResolved(data) ==
    /\ alertMsg = NoAlert
    /\ statusPolls > 0
    /\ statusPolls' = statusPolls - 1
    /\ statusIndicator' = updateStatus_indicator(data)
    /\ btnStart' = updateStatus_btnStart(data)
    /\ btnStopDisabled' = ~data.is_running
    /\ IF Has(data, "portfolio")
       THEN /\ sellButtons' = updateStatus_positions(data)
            /\ sellRequests' = Detached(sellRequests)
       ELSE UNCHANGED <<sellButtons, sellRequests>>
    /\ UNCHANGED controls
    /\ UNCHANGED <<btVars, tableVars, alertMsg, chartVars, popupVars, exportPending,
                   editorVars>>

\* updateStatus, catch block: the failure is logged only
StatusFailed ==
    /\ alertMsg = NoAlert
    /\ statusPolls > 0
    /\ statusPolls' = statusPolls - 1
    /\ UNCHANGED <<sellButtons, sellRequests, statusIndicator, btnStart,
                   btnStopDisabled, controls>>
    /\ UNCHANGED <<btVars, tableVars, alertMsg, chartVars, popupVars, exportPending,
                   editorVars>>

\* sellImmediate up to its await: quantity check, confirm(), then the button
\* is disabled and the order leaves
SellClick(p, qtyValid, confirmed) ==
    /\ alertMsg = NoAlert
    /\ p \in DOMAIN sellButtons
    /\ ~sellButtons[p].disabled
    /\ Len(sellRequests) < MaxSells
    /\ IF ~qtyValid
       THEN /\ alertMsg' = "enter a valid quantity"
            /\ UNCHANGED <<sellButtons, sellRequests>>
       ELSE IF ~confirmed
       THEN UNCHANGED <<sellButtons, sellRequests, alertMsg>>
       ELSE /\ sellButtons' = [sellButtons EXCEPT
                                   ![p] = [disabled |-> TRUE, innerText |-> "processing"]]
            /\ sellRequests' = Append(sellRequests,
                                      [symbol |-> p, attached |-> TRUE,
                                       originalText |-> sellButtons[p].innerText])
            /\ UNCHANGED alertMsg
    /\ UNCHANGED <<statusPolls, statusIndicator, btnStart, btnStopDisabled, controls>>
    /\ UNCHANGED <<btVars, tableVars, chartVars, popupVars, exportPending, editorVars>>

\* the button of call i, when it is still the one in the document
restoreButton(btns, req, text) ==
    IF req.attached /\ req.symbol \in DOMAIN btns
    THEN [btns EXCEPT ![req.symbol] = [disabled |-> FALSE, innerText |-> text]]
    ELSE btns

\* sellImmediate after its awaits: status "ok" leaves the button as it is, any
\* other status alerts and restores it
SellResolved(i, ok) ==
    /\ alertMsg = NoAlert
    /\ i \in 1..Len(sellRequests)
    /\ sellRequests' = RemoveAt(sellRequests, i)
    /\ IF ok
       THEN UNCHANGED <<sellButtons, alertMsg>>
       ELSE /\ alertMsg' = "sell failed"
            /\ sellButtons' = restoreButton(sellButtons, sellRequests[i],
                                            sellRequests[i].originalText)
    /\ UNCHANGED <<statusPolls, statusIndicator, btnStart, btnStopDisabled, controls>>
    /\ UNCHANGED <<btVars, tableVars, chartVars, popupVars, exportPending, editorVars>>

\* sellImmediate, catch block
SellFailed(i) ==
    /\ alertMsg = NoAlert
    /\ i \in 1..Len(sellRequests)
    /\ sellRequests' = RemoveAt(sellRequests, i)
    /\ alertMsg' = "sell error"
    /\ sellButtons' = restoreButton(sellButtons, sellRequests[i], "sell")
    /\ UNCHANGED <<statusPolls, statusIndicator, btnStart, btnStopDisabled, controls>>
    /\ UNCHANGED <<btVars, tableVars, chartVars, popupVars, exportPending, editorVars>>

SellNext ==
    \/ DismissAlert
    \/ PollTick
    \/ \E data \in StatusData : StatusResolved(data)
    \/ StatusFailed
    \/ \E p \in Positions, qtyValid \in BOOLEAN, confirmed \in BOOLEAN :
          SellClick(p, qtyValid, confirmed)
    \/ \E i \in 1..MaxSells, ok \in BOOLEAN : SellResolved(i, ok)
    \/ \E i \in 1..MaxSells : SellFailed(i)

SpecSell == Init /\ [][SellNext]_vars

\* btn-start onclick up to its first await: the button is disabled, the label
\* reads "saving", saveAllAndGetReady posts the configuration
StartClick ==
    /\ alertMsg = NoAlert
    /\ ~btnStart.disabled
    /\ Len(controls) < MaxControls
    /\ btnStart' = [textContent |-> "saving", disabled |-> TRUE]
    /\ controls' = Append(controls,
                          [handler |-> "btn-start", phase |-> "save",
                           originalText |-> btnStart.textContent])
    /\ UNCHANGED <<sellButtons, sellRequests, statusPolls, statusIndicator,
                   btnStopDisabled>>
    /\ UNCHANGED <<btVars, tableVars, alertMsg, chartVars, popupVars, exportPending,
                   editorVars>>

\* btn-start onclick after saveAllAndGetReady (its two posts change nothing
\* on the page): a restart asks confirm() and either sends the command or
\* re-enables the button, a start sends the command
SaveResolved(i, confirmed) ==
    /\ alertMsg = NoAlert
    /\ i \in 1..Len(controls)
    /\ controls[i].handler = "btn-start"
    /\ controls[i].phase = "save"
    /\ IF controls[i].originalText = "restart"
       THEN IF confirmed
            THEN /\ btnStart' = [btnStart EXCEPT !.textContent = "requesting"]
                 /\ controls' = [controls EXCEPT ![i].phase = "restart"]
            ELSE /\ btnStart' = [textContent |-> "restart", disabled |-> FALSE]
                 /\ controls' = RemoveAt(controls, i)
       ELSE /\ btnStart' = [btnStart EXCEPT !.textContent = "requesting start"]
            /\ controls' = [controls EXCEPT ![i].phase = "start"]
    /\ UNCHANGED <<sellButtons, sellRequests, statusPolls, statusIndicator,
                   btnStopDisabled>>
    /\ UNCHANGED <<btVars, tableVars, alertMsg, chartVars, popupVars, exportPending,
                   editorVars>>

\* btn-stop onclick: sendControl("stop") up to its await
StopClick ==
    /\ alertMsg = NoAlert
    /\ ~btnStopDisabled
    /\ Len(controls) < MaxControls
    /\ controls' = Append(controls,
                          [handler |-> "btn-stop", phase |-> "stop", originalText |-> ""])
    /\ UNCHANGED <<sellButtons, sellRequests, statusPolls, statusIndicator, btnStart,
                   btnStopDisabled>>
    /\ UNCHANGED <<btVars, tableVars, alertMsg, chartVars, popupVars, exportPending,
                   editorVars>>

\* sendControl after its await: updateStatus is scheduled; the restart
\* handler then alerts that the request was sent
ControlResolved(i) ==
    /\ alertMsg = NoAlert
    /\ i \in 1..Len(controls)
    /\ controls[i].phase \in {"start", "restart", "stop"}
    /\ statusPolls < MaxPolls
    /\ statusPolls' = statusPolls + 1
    /\ controls' = RemoveAt(controls, i)
    /\ alertMsg' = IF controls[i].phase = "restart" THEN "restart requested" ELSE NoAlert
    /\ UNCHANGED <<sellButtons, sellRequests, statusIndicator, btnStart, btnStopDisabled>>
    /\ UNCHANGED <<btVars, tableVars, chartVars, popupVars, exportPending, editorVars>>

\* a post of the handler rejects: btn-start's catch block alerts and restores
\* the button; btn-stop has no handler for the rejection
ControlFailed(i) ==
    /\ alertMsg = NoAlert
    /\ i \in 1..Len(controls)
    /\ controls' = RemoveAt(controls, i)
    /\ IF controls[i].handler = "btn-start"
       THEN /\ alertMsg' = "start error"
            /\ btnStart' = [textContent |-> controls[i].originalText, disabled |-> FALSE]
       ELSE UNCHANGED <<alertMsg, btnStart>>
    /\ UNCHANGED <<sellButtons, sellRequests, statusPolls, statusIndicator,
                   btnStopDisabled>>
    /\ UNCHANGED <<btVars, tableVars, chartVars, popupVars, exportPending, editorVars>>

ControlNext ==
    \/ DismissAlert
    \/ PollTick
    \/ \E data \in StatusData : StatusResolved(data)
    \/ StatusFailed
    \/ StartClick
    \/ \E i \in 1..MaxControls, confirmed \in BOOLEAN : SaveResolved(i, confirmed)
    \/ StopClick
    \/ \E i \in 1..MaxControls : ControlResolved(i)
    \/ \E i \in 1..MaxControls : ControlFailed(i)

SpecControl == Init /\ [][ControlNext]_vars

\* ------------------------------------------------------------------ strategy editor actions
MaxNew == 2           \* highest number createNewStrategy may append to "NewStrategy"
MaxSaves == 1         \* saveConfig calls in flight at once
\* the server's two strategies and the created ones
MaxStrategies == MaxNew + 2

\* the names every object inherits: fullConfig[name] is truthy for them
ProtoNames == {"constructor"}

\* what the user may type into the prompt of renameStrategyUI ("" for cancel)
RenameInputs == {"", "_meta", "A", "C", "constructor"}

bodyOf(cfg, k) ==
    IF k \in KeySet(cfg)
    THEN cfg[CHOOSE i \in 1..Len(cfg) : cfg[i].key = k].body
    ELSE "undefined"

\* fullConfig[k] is truthy
cfgHas(cfg, k) ==
    \/ k \in KeySet(cfg) /\ bodyOf(cfg, k) # "undefined"
    \/ k \in ProtoNames

\* delete fullConfig[k]
deleteKey(cfg, k) == SelectSeq(cfg, LAMBDA e : e.key # k)

\* fullConfig[k] = body: in place for a key the object has, else appended
setKey(cfg, k, body) ==
    IF k \in KeySet(cfg)
    THEN [i \in 1..Len(cfg) |-> IF cfg[i].key = k THEN [key |-> k, body |-> body] ELSE cfg[i]]
    ELSE Append(cfg, [key |-> k, body |-> body])

\* the editor's module variables as one value
Editor ==
    [fullConfig |-> fullConfig, meta |-> meta, currentStrategy |-> currentStrategy,
     activeStrategy |-> activeStrategy, saved |-> FALSE, alert |-> NoAlert]

\* selectStrategy(key); confirmed is the answer to its confirm()
selectStrategy(ed, key, confirmed) ==
    IF key = NoStrategy \/ ~cfgHas(ed.fullConfig, key) THEN ed
    ELSE IF ed.activeStrategy # NoStrategy /\ key # ed.activeStrategy /\ confirmed
    THEN [ed EXCEPT !.activeStrategy = key,
                    !.meta = [active_strategy |-> key],
                    !.saved = TRUE,
                    !.alert = "strategy applied",
                    !.currentStrategy = key]
    ELSE [ed EXCEPT !.currentStrategy = key]

\* the first free "NewStrategy<count>"
NewName(n) == "NewStrategy" \o ToString(n)
newCount(cfg) == CHOOSE n \in 1..(Len(cfg) + 1) :
                    /\ ~cfgHas(cfg, NewName(n))
                    /\ \A k \in 1..(n - 1) : cfgHas(cfg, NewName(k))

createNewStrategy(ed, confirmed) ==
    LET newName == NewName(newCount(ed.fullConfig))
    IN  selectStrategy([ed EXCEPT !.fullConfig = setKey(@, newName, TemplateBody)],
                       newName, confirmed)

\* renameStrategyUI with the prompt's answer, and renameStrategy
renameStrategy(ed, newName, confirmed) ==
    IF ed.currentStrategy = NoStrategy THEN ed
    ELSE IF newName = "" \/ newName = ed.currentStrategy THEN ed
    ELSE IF newName = "_meta" THEN [ed EXCEPT !.alert = "name not allowed"]
    ELSE IF cfgHas(ed.fullConfig, newName) THEN [ed EXCEPT !.alert = "name exists"]
    ELSE LET moved == deleteKey(setKey(ed.fullConfig, newName,
                                       bodyOf(ed.fullConfig, ed.currentStrategy)),
                                ed.currentStrategy)
             wasActive == ed.currentStrategy = ed.activeStrategy
         IN  selectStrategy(
               [ed EXCEPT !.fullConfig = moved,
                          !.activeStrategy = IF wasActive THEN newName ELSE @,
                          !.meta = IF wasActive THEN [active_strategy |-> newName] ELSE @,
                          !.currentStrategy = newName],
               newName, confirmed)

\* deleteStrategy without its check of the active strategy
deleteStrategy_anyStrategy(ed, confirmedDelete, confirmed) ==
    IF ed.currentStrategy = NoStrategy THEN ed
    ELSE IF ~confirmedDelete THEN ed
    ELSE LET rest == deleteKey(ed.fullConfig, ed.currentStrategy)
             cleared == [ed EXCEPT !.fullConfig = rest, !.currentStrategy = NoStrategy]
         IN  IF Len(rest) > 0
             THEN selectStrategy(cleared,
                                 IF ed.activeStrategy # NoStrategy
                                    /\ cfgHas(rest, ed.activeStrategy)
                                 THEN ed.activeStrategy ELSE rest[1].key,
                                 confirmed)
             ELSE cleared

\* deleteStrategy; confirmedDelete answers its confirm(), confirmed the one of
\* the selectStrategy it ends with
deleteStrategy(ed, confirmedDelete, confirmed) ==
    IF ed.currentStrategy = NoStrategy THEN ed
    ELSE IF ed.currentStrategy = ed.activeStrategy
    THEN [ed EXCEPT !.alert = "the active strategy cannot be deleted"]
    ELSE IF ~confirmedDelete THEN ed
    ELSE LET rest == deleteKey(ed.fullConfig, ed.currentStrategy)
             cleared == [ed EXCEPT !.fullConfig = rest, !.currentStrategy = NoStrategy]
         IN  IF Len(rest) > 0
             THEN selectStrategy(cleared,
                                 IF ed.activeStrategy # NoStrategy
                                    /\ cfgHas(rest, ed.activeStrategy)
                                 THEN ed.activeStrategy ELSE rest[1].key,
                                 confirmed)
             ELSE cleared

\* saveConfig up to its await: _meta is brought up to date
saveConfig_meta(ed) ==
    [ed EXCEPT !.meta = IF ed.activeStrategy # NoStrategy
                        THEN [active_strategy |-> ed.activeStrategy]
                        ELSE IF @ = NoMeta THEN EmptyMeta ELSE @,
               !.saved = TRUE]

\* the handler's result becomes the page's state; a saveConfig(true) it
\* called is awaiting its response
SetEditor(ed) ==
    /\ fullConfig' = ed.fullConfig
    /\ meta' = ed.meta
    /\ currentStrategy' = ed.currentStrategy
    /\ activeStrategy' = ed.activeStrategy
    /\ alertMsg' = ed.alert
    /\ saves' = IF ed.saved THEN Append(saves, TRUE) ELSE saves
    /\ UNCHANGED configLoading
    /\ UNCHANGED <<btVars, tableVars, chartVars, popupVars, exportPending, dashVars>>

\* initConfigPage after its awaits: the configuration replaces fullConfig,
\* the active strategy is read from _meta or is the first key, and it (or
\* the first key) is selected
ConfigLoaded(cfg, m, confirmed) ==
    /\ alertMsg = NoAlert
    /\ configLoading
    /\ Len(saves) < MaxSaves
    /\ configLoading' = FALSE
    /\ LET active == IF Has(m, "active_strategy") THEN m.active_strategy
                     ELSE IF Len(cfg) > 0 THEN cfg[1].key ELSE activeStrategy
           loaded == [Editor EXCEPT !.fullConfig = cfg, !.meta = m,
                                    !.activeStrategy = active]
           ed == IF active # NoStrategy /\ cfgHas(cfg, active)
                 THEN selectStrategy(loaded, active, confirmed)
                 ELSE IF Len(cfg) > 0
                 THEN selectStrategy(loaded, cfg[1].key, confirmed)
                 ELSE [loaded EXCEPT !.currentStrategy = NoStrategy]
       IN  /\ fullConfig' = ed.fullConfig
           /\ meta' = ed.meta
           /\ currentStrategy' = ed.currentStrategy
           /\ activeStrategy' = ed.activeStrategy
           /\ alertMsg' = ed.alert
           /\ saves' = IF ed.saved THEN Append(saves, TRUE) ELSE saves
    /\ UNCHANGED <<btVars, tableVars, chartVars, popupVars, exportPending, dashVars>>

\* initConfigPage, catch block
ConfigLoadFailed ==
    /\ alertMsg = NoAlert
    /\ configLoading
    /\ configLoading' = FALSE
    /\ alertMsg' = "config load failed"
    /\ UNCHANGED <<fullConfig, meta, currentStrategy, activeStrategy, saves>>
    /\ UNCHANGED <<btVars, tableVars, chartVars, popupVars, exportPending, dashVars>>

\* the user picks option i of the strategy dropdown (renderStrategySelector
\* lists the keys of fullConfig)
SelectStrategy(i, confirmed) ==
    /\ alertMsg = NoAlert
    /\ Len(saves) < MaxSaves
    /\ i \in 1..Len(fullConfig)
    /\ SetEditor(selectStrategy(Editor, fullConfig[i].key, confirmed))

CreateNewStrategy(confirmed) ==
    /\ alertMsg = NoAlert
    /\ Len(saves) < MaxSaves
    /\ newCount(fullConfig) <= MaxNew
    /\ SetEditor(createNewStrategy(Editor, confirmed))

RenameStrategy(newName, confirmed) ==
    /\ alertMsg = NoAlert
    /\ Len(saves) < MaxSaves
    /\ SetEditor(renameStrategy(Editor, newName, confirmed))

DeleteStrategy(confirmedDelete, confirmed) ==
    /\ alertMsg = NoAlert
    /\ Len(saves) < MaxSaves
    /\ SetEditor(deleteStrategy(Editor, confirmedDelete, confirmed))

\* the save button: saveConfig() up to its await
SaveClick ==
    /\ alertMsg = NoAlert
    /\ Len(saves) < MaxSaves
    /\ meta' = saveConfig_meta(Editor).meta
    /\ saves' = Append(saves, FALSE)
    /\ UNCHANGED <<fullConfig, currentStrategy, activeStrategy, configLoading, alertMsg>>
    /\ UNCHANGED <<btVars, tableVars, chartVars, popupVars, exportPending, dashVars>>

\* saveConfig after its awaits: a silent save that succeeded shows nothing,
\* every other outcome alerts
ConfigSaved(ok) ==
    /\ alertMsg = NoAlert
    /\ saves # <<>>
    /\ saves' = Tail(saves)
    /\ alertMsg' = IF ~ok THEN "save failed"
                   ELSE IF Head(saves) THEN NoAlert ELSE "saved"
    /\ UNCHANGED <<fullConfig, meta, currentStrategy, activeStrategy, configLoading>>
    /\ UNCHANGED <<btVars, tableVars, chartVars, popupVars, exportPending, dashVars>>

EditorNext ==
    \/ DismissAlert
    \/ \E cfg \in ServerConfigs, confirmed \in BOOLEAN :
          \E m \in ServerMetas(cfg) : ConfigLoaded(cfg, m, confirmed)
    \/ ConfigLoadFailed
    \/ \E i \in 1..MaxStrategies, confirmed \in BOOLEAN : SelectStrategy(i, confirmed)
    \/ \E confirmed \in BOOLEAN : CreateNewStrategy(confirmed)
    \/ \E newName \in RenameInputs, confirmed \in BOOLEAN : RenameStrategy(newName, confirmed)
    \/ \E confirmedDelete \in BOOLEAN, confirmed \in BOOLEAN :
          DeleteStrategy(confirmedDelete, confirmed)
    \/ SaveClick
    \/ \E ok \in BOOLEAN : ConfigSaved(ok)

SpecEditor == Init /\ [][EditorNext]_vars

\* ================================================================== claims
Matches(t, ev) ==
    Has(ev, "timestamp") /\ querySelector(t.rows, trim(ev.timestamp)) # 0

\* C5 (SpecTable): for every table state and every trade event whose key
\* matches a row, applying the event twice in a row leaves the rows (cells and
\* classes) and the most recently touched row as applying it once does.
C5_Idempotent ==
    \A ev \in TradeEvents :
        Matches(table, ev) =>
            updateTableRow(updateTableRow(table, ev), ev) = updateTableRow(table, ev)

\* A matching event has been applied to a loaded table, and applying it again
\* is the case C5 speaks about.
C5_Witness ==
    /\ lastEvent # NoEvent
    /\ Matches(table, lastEvent)
    /\ table.touched # NoRow
    /\ \E i \in 1..Len(table.rows) : table.rows[i].rowBuy /\ table.rows[i].rowSell

MarketCells(r) == <<r.close, r.maShort, r.maLong, r.vol, r.avgVol>>

\* C6 as stated (SpecTable): the market cells written by the baseline load
\* (close, moving averages, volume, average volume) are the baseline's in
\* every later state of the table.
C6_MarketFieldsNeverOverwritten ==
    tableFor # NoSymbol =>
        \A i \in 1..Len(table.rows) :
            MarketCells(table.rows[i]) = MarketCells(BaseRow(BaselineOf(tableFor)[i]))

\* C6 amended (SpecTable): an applied event never changes a row's key or close
\* cell; it leaves the ma-short, ma-long, volume and average-volume cells of
\* every row as they were unless it matches the row and carries a non-zero
\* ma_short, ma_long, volume or avg_vol, which then replaces that cell.
C6_CloseAndKeyKept ==
    [][ lastEvent' # NoEvent =>
          /\ Len(table'.rows) = Len(table.rows)
          /\ \A i \in 1..Len(table.rows) :
                LET r == table.rows[i]
                    q == table'.rows[i]
                    ev == lastEvent'
                    hit == i = querySelector(table.rows, trim(ev.timestamp))
                IN  /\ q.key = r.key
                    /\ q.close = r.close
                    /\ q.maShort = IF hit /\ TruthyNum(ev, "ma_short")
                                   THEN formatComma(ev.ma_short) ELSE r.maShort
                    /\ q.maLong = IF hit /\ TruthyNum(ev, "ma_long")
                                  THEN formatComma(ev.ma_long) ELSE r.maLong
                    /\ q.vol = IF hit /\ TruthyNum(ev, "volume")
                               THEN formatComma(ev.volume) ELSE r.vol
                    /\ q.avgVol = IF hit /\ TruthyNum(ev, "avg_vol")
                                  THEN formatComma(ev.avg_vol) ELSE r.avgVol
      ]_vars

\* An event carrying price and strategy moving averages has been merged into
\* a baseline row: its ma-short cell is no longer the baseline's.
C6_Witness ==
    /\ tableFor # NoSymbol
    /\ lastEvent # NoEvent
    /\ Has(lastEvent, "price")
    /\ \E i \in 1..Len(table.rows) :
          /\ table.touched = i
          /\ table.rows[i].maShort # BaseRow(BaselineOf(tableFor)[i]).maShort
          /\ table.rows[i].close = BaseRow(BaselineOf(tableFor)[i]).close

\* C10 (SpecTable): an event whose trimmed timestamp matches no row of the
\* loaded table changes nothing: no row, cell, class, and not the most
\* recently touched row.
C10_UnmatchedDropped ==
    [][ (lastEvent' # NoEvent /\ ~Matches(table, lastEvent')) => table' = table ]_vars

\* An unmatched event has been applied to a loaded table that had already
\* been touched by an earlier event.
C10_Witness ==
    /\ lastEvent # NoEvent
    /\ ~Matches(table, lastEvent)
    /\ Len(table.rows) > 0
    /\ table.touched # NoRow

LiveSessions == {s \in 1..MaxSessions : Live(s)}

\* C1 (Spec): at most one backtest stream session is open (connecting or
\* streaming) at any time, under every interleaving of run clicks, data-check
\* completions, stream messages and socket errors.
C1_AtMostOneSession == Cardinality(LiveSessions) <= 1

\* C2 (Spec): the run button is disabled in every state in which a session
\* has been started and has not yet handled its terminal result/error.
C2_RunDisabledWhileActive == (LiveSessions # {}) => btnRunDisabled

ShowsMetrics(p, m) == p = updateRealtimeMetrics(p, m)

Stale(f) == f.sym # requestedSymbol \/ f.tf # currentChartTimeframe

Display == <<series, currentMarkers, chartMarkers, allTradeEvents, rowInputs>>

\* C3: the response of a chart-data fetch made for a selection that has since
\* been replaced by another is discarded: when it resolves, the candles,
\* indicators, markers and trade list on display stay as they are.
C3_StaleResponseDiscarded ==
    [][\A i \in 1..MaxFetches, resp \in ChartData :
          (/\ i <= Len(chartFetches)
           /\ Stale(chartFetches[i])
           /\ ChartResolved(i, resp)) => UNCHANGED Display]_vars

Sorted(ms) ==
    \A i \in 1..(Len(ms) - 1) : EffTime(ms[i].time) <= EffTime(ms[i + 1].time)

\* C7: the list last handed to candleSeries.setMarkers is in ascending order
\* of effective time, in every reachable state.
C7_HandedMarkersAscending == Sorted(chartMarkers)

\* the event of row k has no marker with its id in the marker list
NotInMarkers(k) ==
    findIndexById(currentMarkers, "id",
                  allTradeEvents[(currentPage - 1) * itemsPerPage + k].event_id) = 0

C9_EmptyReplaceClears ==
    [][SetMarkers(<<>>) => (currentMarkers' = <<>> /\ chartMarkers' = <<>>)]_vars

\* markers and layer are empty while the trade list still shows the events
\* of the replaced batch
C9_Witness ==
    /\ currentMarkers = <<>>
    /\ chartMarkers = <<>>
    /\ allTradeEvents # <<>>
    /\ alertMsg = NoAlert

\* ------------------------------------------------------------------ bar table claims (C11..C16)

\* the fields of a trade event that updateTableRow reads into cells
EventFields == {"side", "qty", "price", "pnl_pct", "ma_short", "ma_long", "volume",
                "avg_vol", "adx", "slope", "rr_ratio", "perf_weight", "action", "msg"}

\* the cells (text and class) of row r that show field f
CellsOf(r, f) ==
    CASE f = "side"        -> <<r.side, r.sideClass>>
      [] f = "qty"         -> <<r.qty>>
      [] f = "price"       -> <<r.price>>
      [] f = "pnl_pct"     -> <<r.pnl, r.pnlClass>>
      [] f = "ma_short"    -> <<r.maShort>>
      [] f = "ma_long"     -> <<r.maLong>>
      [] f = "volume"      -> <<r.vol>>
      [] f = "avg_vol"     -> <<r.avgVol>>
      [] f = "adx"         -> <<r.adx>>
      [] f = "slope"       -> <<r.slope>>
      [] f = "rr_ratio"    -> <<r.rr, r.rrClass>>
      [] f = "perf_weight" -> <<r.weight>>
      [] f = "action"      -> <<r.action, r.actionColor>>
      [] f = "msg"         -> <<r.log, r.logTitle>>

\* the text a cell shows for the value of field f carried by event ev
Rendered(ev, f) ==
    CASE f = "side"        -> sideText(ev)
      [] f = "qty"         -> formatComma(ev.qty)
      [] f = "price"       -> formatComma(ev.price)
      [] f = "pnl_pct"     -> toFixed2(ev.pnl_pct) \o "%"
      [] f = "ma_short"    -> formatComma(ev.ma_short)
      [] f = "ma_long"     -> formatComma(ev.ma_long)
      [] f = "volume"      -> formatComma(ev.volume)
      [] f = "avg_vol"     -> formatComma(ev.avg_vol)
      [] f = "adx"         -> ToString(ev.adx)
      [] f = "slope"       -> toFixed1(ev.slope)
      [] f = "rr_ratio"    -> toFixed2(ev.rr_ratio)
      [] f = "perf_weight" -> toFixed2(ev.perf_weight)
      [] f = "action"      -> ev.action
      [] f = "msg"         -> ev.msg

\* the row an event is looked up to, 0 when there is none
RowOf(t, ev) == querySelector(t.rows, trim(ev.timestamp))

\* C11: a matching event leaves the cells of every field it does not carry
\* (side, qty and price included) as they were before the event.
C11_AbsentFieldKeepsCell ==
    [][ (lastEvent' # NoEvent /\ Matches(table, lastEvent')) =>
          LET i == RowOf(table, lastEvent')
          IN  \A f \in EventFields :
                 ~Has(lastEvent', f) =>
                     CellsOf(table'.rows[i], f) = CellsOf(table.rows[i], f) ]_vars

\* C12: after a matching event, the cell of every field the event carries
\* shows the event's value, a value of zero (or the empty text) included.
C12_CarriedFieldMerged ==
    [][ (lastEvent' # NoEvent /\ Matches(table, lastEvent')) =>
          LET i == RowOf(table, lastEvent')
          IN  \A f \in EventFields :
                 Has(lastEvent', f) =>
                     CellsOf(table'.rows[i], f)[1] = Rendered(lastEvent', f) ]_vars

MaxSeq == 2

\* the event sequences of up to MaxSeq events
EventSeqs == UNION {[1..n -> TradeEvents] : n \in 0..MaxSeq}

\* C13: from every table state, after any sequence of events applied in
\* arrival order, each cell of each row shows the value of the latest event
\* of the sequence that matched the row and carried the cell's field.
C13_LastWriteWins ==
    \A seq \in EventSeqs :
        LET final == forEachUpdate(table, seq).table
        IN  \A i \in 1..Len(table.rows), f \in EventFields :
               LET hits == {j \in 1..Len(seq) :
                               RowOf(table, seq[j]) = i /\ Has(seq[j], f)}
                   last == CHOOSE j \in hits : \A k \in hits : k <= j
               IN  hits # {} => CellsOf(final.rows[i], f)[1] = Rendered(seq[last], f)

\* C14: the rows of the table have pairwise different keys, whatever dataset
\* was loaded.
C14_OneRowPerKey ==
    \A i, j \in 1..Len(table.rows) :
        i # j => table.rows[i].key # table.rows[j].key

\* a timestamp without its leading and trailing spaces
Normalized(ts) ==
    LET idx == {i \in 1..Len(ts) : ts[i] # SP}
        lo == CHOOSE i \in idx : \A k \in idx : i <= k
        hi == CHOOSE i \in idx : \A k \in idx : k <= i
    IN  IF idx = {} THEN <<>> ELSE SubSeq(ts, lo, hi)

\* date, one space, time for an entry with a time; the date alone otherwise
KeyOf(entry) ==
    IF Has(entry, "time") THEN <<entry.date, SP, entry.time>> ELSE <<entry.date>>

Untouched(r) ==
    /\ r.side = "" /\ r.qty = "" /\ r.price = "" /\ r.pnl = "" /\ r.pnlClass = ""
    /\ r.sideClass = "border-left text-center side-cell"
    /\ r.adx = "-" /\ r.slope = "-" /\ r.rr = "-" /\ r.rrClass = "" /\ r.weight = "-"
    /\ r.action = "-" /\ r.actionColor = "" /\ r.log = "" /\ r.logTitle = ""
    /\ ~r.rowBuy /\ ~r.rowSell

\* the table t holds the rows of dataset data and nothing else
Fresh(t, data) ==
    /\ Len(t.rows) = Len(data)
    /\ t.touched = NoRow
    /\ \A i \in 1..Len(data) :
          /\ t.rows[i].key = KeyOf(data[i])
          /\ t.rows[i].close = formatComma(data[i].close)
          /\ t.rows[i].vol = formatComma(data[i].volume)
          /\ Untouched(t.rows[i])

\* C15: when /backtest/data resolves with a dataset, the table afterwards
\* holds one untouched row per entry of that dataset, in order, and nothing
\* of the table that was on display before.
C15_LoadReplacesTable ==
    [][\A c \in 1..MaxChecks :
          DataResolved(c, TRUE) => Fresh(table', BaselineOf(checks[c].sym))]_vars

\* the stored result of a finished session, whose logs were written into the
\* rows, is still there while the table shows a dataset loaded after it
C15_Witness ==
    /\ lastBacktestResult = RLogs
    /\ tableFor # NoSymbol
    /\ Fresh(table, BaselineOf(tableFor))

\* ------------------------------------------------------------------ marker and series claims (C17..C20)

\* how often x occurs in the sequence seq
Count(seq, x) == Cardinality({i \in 1..Len(seq) : seq[i] = x})

\* the two sequences hold the same elements the same number of times
SameBag(a, b) ==
    /\ Len(a) = Len(b)
    /\ \A i \in 1..Len(a) : Count(a, a[i]) = Count(b, a[i])

C18_ReplaceRebuildsMarkers ==
    \A b \in Batches \ {<<>>} :
        \A clock \in Clock(b) :
            LET st == chartApi_setMarkers(Store, b, currentChartTimeframe, clock)
                evs == st.events
                ms == st.markers
            IN  /\ Len(evs) = Len(b)
                /\ Len(ms) = Len(b)
                /\ \A i \in 1..Len(evs) : Has(evs[i], "event_id")
                /\ Cardinality({evs[i].event_id : i \in 1..Len(evs)}) = Len(b)
                /\ {ms[i].id : i \in 1..Len(ms)} = {evs[i].event_id : i \in 1..Len(evs)}
                /\ \A i \in 1..Len(b) :
                      \E n \in 1..Len(evs) :
                         \A f \in DOMAIN b[i] : evs[n][f] = b[i][f]
                /\ st.layer = ms

\* the markers of a batch of events that came without identity: both carry a
\* synthesized one
C18_Witness ==
    /\ Len(currentMarkers) = 2
    /\ \A i \in 1..2 : currentMarkers[i].id[1] = "bt"
    /\ currentMarkers[1].id # currentMarkers[2].id
    /\ chartMarkers = currentMarkers

\* the trades of a result payload
PayloadTrades(result) == IF Has(result, "history") THEN result.history ELSE <<>>

\* C19: when a result message is handled, the marker list and the list
\* handed to the chart afterwards hold one marker per trade of the result.
C19_ResultRebuildsMarkers ==
    [][\A s \in 1..MaxSessions, msg \in Messages :
          (msg.type = "result" /\ WsMessage(s, msg))
          => /\ Len(currentMarkers') = Len(PayloadTrades(msg.result))
             /\ chartMarkers' = currentMarkers']_vars

\* the series of the chart
SeriesShown == {series.candles, series.volume, series.rsi}
               \cup {series.ma[p] : p \in Periods}

\* C20: when the response of the latest requested selection has been
\* applied, every series shows data of that selection or none.
C20_SeriesReplacedInFull ==
    [][\A i \in 1..MaxFetches, resp \in ChartData :
          (/\ i <= Len(chartFetches)
           /\ ~Stale(chartFetches[i])
           /\ ChartResolved(i, resp))
          => SeriesShown' \subseteq
                {NoSel, [sym |-> chartFetches[i].sym, tf |-> chartFetches[i].tf]}]_vars

\* C21: the visibility of the moving-average series changes only by a toggle
\* of its checkbox or by opening the popup; an interval change, the arrival
\* of a dataset and a failed load leave every indicator's visibility as it was.
C21_VisibilityChangesOnlyByToggleOrOpen ==
    [][ /\ maVisible' # maVisible
           => \/ \E p \in Periods, v \in BOOLEAN : ToggleMA(p, v)
              \/ \E sym \in Symbols, interval \in Intervals \cup {NoInterval} :
                    OpenChart(sym, interval)
        /\ (\E interval \in Intervals : UpdateInterval(interval))
           => maVisible' = maVisible
        /\ (\E i \in 1..MaxFetches, resp \in PopupResponses : PopupResolved(i, resp))
           => maVisible' = maVisible ]_vars

\* an indicator the user hid is still hidden while another interval's
\* dataset is on display and no request is pending
C21_Witness ==
    /\ ~maVisible[20]
    /\ maVisible[5]
    /\ popupSeries.candles = [sym |-> "A", tf |-> "D"]
    /\ popupSeries.ma[20] = [sym |-> "A", tf |-> "D"]
    /\ currentInterval = "D"
    /\ popupFetches = <<>>

\* C22: a stream message whose type is none of progress, trade_event, result,
\* error leaves the table, the panel, the progress indicator, the status, the
\* stored result and the run control as they were, raises no alert and does
\* not close the connection.
UnknownMessages ==
    { [type |-> "heartbeat"],
      [type |-> "Result", result |-> RLogs],
      [type |-> "log", data |-> P55],
      [type |-> "trade", data |-> EvSell] }

C22_UnknownTypeIgnored ==
    \A s \in 1..MaxSessions :
       (sockets[s].state = "open" /\ sockets[s].sent # <<>>)
          => \A msg \in UnknownMessages : onmessage(Page, msg) = Page

\* a session in the middle of its stream: progress shown, a trade applied
C22_Witness ==
    /\ \E s \in 1..MaxSessions : sockets[s].state = "open" /\ sockets[s].sent # <<>>
    /\ progressText = "10%"
    /\ \E i \in 1..Len(table.rows) : table.rows[i].rowBuy
    /\ btnRunDisabled

\* C23: once a result or an error message has been handled the connection of
\* its session is closed, so that no later message of the session is handled.
TerminalMessages ==
    {msg \in Messages \cup MalformedMessages : msg.type \in {"result", "error"}}

C23_TerminalClosesSession ==
    [][ \A s \in 1..MaxSessions, msg \in TerminalMessages :
           WsMessage(s, msg) => sockets'[s] = NoSocket ]_vars

\* the same for the terminal messages that carry every payload field
C23_WellFormedTerminalClosesSession ==
    [][ \A s \in 1..MaxSessions, msg \in TerminalMessages \cap Messages :
           WsMessage(s, msg) => sockets'[s] = NoSocket ]_vars

\* C24: a stream connection is created only by the run action, a preparation
\* only by the check action; within a preparation a request follows only the
\* response it depends on (check, then download or data, download then data);
\* no other step - a terminal message, a socket error, a failed or rejected
\* fetch - starts a connection or a request.
NewConnection(s) == sockets'[s].state = "connecting" /\ sockets[s].state # "connecting"

RequestOrder ==
    { <<"idle", "check">>, <<"check", "download">>, <<"check", "data">>,
      <<"download", "data">>, <<"check", "idle">>, <<"download", "idle">>,
      <<"data", "idle">> }

C24_NoAutomaticRetry ==
    [][ /\ \A s \in 1..MaxSessions : NewConnection(s) => runBacktestWebSocket(s)
        /\ \A c \in 1..MaxChecks :
              /\ checks'[c].pc # checks[c].pc
                    => <<checks[c].pc, checks'[c].pc>> \in RequestOrder
              /\ (checks[c].pc = "idle" /\ checks'[c].pc # "idle") => ClickCheck(c)
              /\ (checks'[c].pc \in {"download", "data"} /\ checks'[c].pc # checks[c].pc)
                    => \/ CheckResolved(c, checks'[c].pc = "data")
                       \/ DownloadResolved(c, TRUE) ]_vars

\* after a transport error nothing is in flight and the run control waits for
\* the user
C24_Witness ==
    /\ statusText = "transport error"
    /\ \A s \in 1..MaxSessions : ~Live(s)
    /\ \A c \in 1..MaxChecks : checks[c].pc = "idle"
    /\ ~btnRunDisabled

\* C25: a session sends one outbound message, the run configuration, when the
\* transport becomes ready, and that configuration is fixed at the run
\* request: while the session is connecting, nothing the user does to the
\* form changes the configuration the session is going to send.
C25_ConfigFixedAtRunRequest ==
    [][ /\ \A s \in 1..MaxSessions :
              (sockets[s].state = "connecting" /\ sockets'[s].state = "connecting")
                 => onopenConfig' = onopenConfig
        /\ \A s \in 1..MaxSessions :
              /\ Len(sockets'[s].sent) <= 1
              /\ WsOpen(s) => Len(sockets'[s].sent) = 1 ]_vars

\* the part of C25 that holds: one outbound message, sent at open
C25_OneMessageAtOpen ==
    [][ \A s \in 1..MaxSessions :
           /\ Len(sockets'[s].sent) <= 1
           /\ WsOpen(s) => Len(sockets'[s].sent) = 1
           /\ sockets'[s].sent # sockets[s].sent
                 => (WsOpen(s) \/ sockets'[s] = NoSocket) ]_vars

\* C26: whatever the panel and the progress indicator show, handling a
\* progress message leaves in every panel field and in the indicator the
\* value derived from that message alone: the same display the message gives
\* on the untouched panel, with no field left at its placeholder.
PanelFields ==
    {"qty", "avg", "buyAmt", "evalAmt", "evalPnl", "pnlClass", "rate", "rateClass",
     "tradeCount"}

C26_ProgressSupersedes ==
    \A d \in Payloads :
       LET msg == [type |-> "progress", data |-> d]
           pg == onmessage(Page, msg)
           fresh == onmessage([Page EXCEPT !.panel = EmptyPanel, !.progress = "0%"], msg)
       IN  /\ pg.panel = fresh.panel
           /\ pg.progress = fresh.progress
           /\ pg.progress = ToString(d.percent) \o "%"
           /\ \A f \in PanelFields : pg.panel[f] # EmptyPanel[f]

\* the panel shows the second payload in full after the first one was shown:
\* zero quantity, negative P&L and rate, and the session is still streaming
C26_Witness ==
    /\ panel = updateRealtimeMetrics(EmptyPanel, P55)
    /\ panel.qty = "0"
    /\ panel.rateClass = "value pnl-negative"
    /\ progressText = "55%"
    /\ \E s \in 1..MaxSessions : sockets[s].state = "open"

\* C27: a stream message with a missing payload field (a trade event without
\* a timestamp, a progress payload without return_rate, a result message
\* without a result object) does not make the handler throw, and the fields
\* it does carry are applied: the trade count of the progress payload is
\* shown, the result message ends the session and enables the run control.
C27_MissingFieldTolerated ==
    \A s \in 1..MaxSessions :
       (sockets[s].state = "open" /\ sockets[s].sent # <<>>)
          => /\ \A msg \in MalformedMessages : ~onmessageThrows(Page, msg)
             /\ onmessage(Page, [type |-> "progress", data |-> PNoRate]).panel.tradeCount
                   = ToString(PNoRate.trade_count)
             /\ onmessage(Page, [type |-> "result"]).btn = FALSE
             /\ onmessage(Page, [type |-> "result"]).close

\* C28: whenever the connection of a session ends - by a result, an error
\* message, a transport error or the server closing it - the run control is
\* enabled and the status text tells the user how the session ended.
EndStatus == {"done", "error", "transport error"}

SessionEnds(s) == Live(s) /\ ~Live(s)'

C28_EndedSessionReturnsToIdle ==
    [][ \A s \in 1..MaxSessions :
           SessionEnds(s) => (~btnRunDisabled' /\ statusText' \in EndStatus) ]_vars

\* the same without the server's close: result, error message, transport error
C28_HandledEndReturnsToIdle ==
    [][ \A s \in 1..MaxSessions :
           (SessionEnds(s) /\ ~WsClosedByServer(s))
              => (~btnRunDisabled' /\ statusText' \in EndStatus) ]_vars

\* C29: a row carries the highlight of the latest side only: never the buy
\* highlight and the sell highlight together, and after a BUY or SELL event
\* the highlight of the row it matched is that side's.
C29_OnlyLatestSideHighlight ==
    /\ \A i \in 1..Len(table.rows) : ~(table.rows[i].rowBuy /\ table.rows[i].rowSell)
    /\ (/\ lastEvent # NoEvent
        /\ Matches(table, lastEvent)
        /\ Has(lastEvent, "side")
        /\ lastEvent.side \in {"BUY", "SELL"})
          => LET r == table.rows[querySelector(table.rows, trim(lastEvent.timestamp))]
             IN  /\ r.rowBuy = (lastEvent.side = "BUY")
                 /\ r.rowSell = (lastEvent.side = "SELL")

\* C30: a preparation asks for the existence check first, for the download
\* only when the check says the data does not exist, and for the table data
\* only after the check said it exists or the download succeeded; when the
\* download or the table request reports a failure, or a request is rejected,
\* the preparation ends with the table and the run control as they were and
\* the error in the status text.
PreparationFails(c) ==
    \/ DownloadResolved(c, FALSE)
    \/ DataResolved(c, FALSE)
    \/ FetchRejected(c)

C30_PreparationOrderAndFailure ==
    [][ \A c \in 1..MaxChecks :
           /\ (checks'[c].pc = "check" /\ checks[c].pc # "check")
                 => (checks[c].pc = "idle" /\ ClickCheck(c))
           /\ (checks'[c].pc = "download" /\ checks[c].pc # "download")
                 => (checks[c].pc = "check" /\ CheckResolved(c, FALSE))
           /\ (checks'[c].pc = "data" /\ checks[c].pc # "data")
                 => \/ checks[c].pc = "check" /\ CheckResolved(c, TRUE)
                    \/ checks[c].pc = "download" /\ DownloadResolved(c, TRUE)
           /\ (table' # table \/ tableFor' # tableFor)
                 => \/ \E d \in 1..MaxChecks : DataResolved(d, TRUE)
                    \/ \E s \in 1..MaxSessions, msg \in Messages : WsMessage(s, msg)
           /\ PreparationFails(c)
                 => /\ table' = table
                    /\ tableFor' = tableFor
                    /\ statusText' = "check error"
                    /\ btnRunDisabled' = btnRunDisabled
                    /\ checks'[c].pc = "idle" ]_vars

\* a preparation failed after an earlier one had loaded the table: the table
\* is still the loaded one and the error is in the status text
C30_Witness ==
    /\ statusText = "check error"
    /\ tableFor = "A"
    /\ table = renderDataTable(BaselineOf("A"))
    /\ \A c \in 1..MaxChecks : checks[c].pc = "idle"

\* a first preparation failed: the run control is still disabled
C30_WitnessDisabled ==
    /\ statusText = "check error"
    /\ btnRunDisabled
    /\ table = EmptyTable

\* C31: handling a result message leaves the progress indicator at 100%,
\* whatever it showed before (0% when no progress message was received, the
\* percent of the last progress message otherwise).
C31_ResultShowsFullProgress ==
    \A s \in 1..MaxSessions :
       (sockets[s].state = "open" /\ sockets[s].sent # <<>>)
          => \A r \in Results :
                onmessage(Page, [type |-> "result", result |-> r]).progress = "100%"

C31_ResultStepShowsFullProgress ==
    [][ \A s \in 1..MaxSessions, r \in Results :
           WsMessage(s, [type |-> "result", result |-> r]) => progressText' = "100%" ]_vars

\* a result was handled after the only progress message said 10%
C31_Witness ==
    /\ progressText = "100%"
    /\ lastBacktestResult \in Results
    /\ panel = updateRealtimeMetrics(EmptyPanel, P10)
    /\ statusText = "done"

\* C32: the result the export uses is the latest run's: nothing is stored, and
\* an export is refused with an alert, while the socket of the latest run is
\* connecting or streaming; a result message stores its result only when it
\* is the latest run's.
LatestRunLive == \E s \in 1..MaxSessions : Live(s) /\ sockets[s].latest

C32_StoredResultOfLatestRun ==
    [][ /\ \A s \in 1..MaxSessions, r \in Results :
              (WsMessage(s, [type |-> "result", result |-> r]) /\ Live(s))
                 => sockets[s].latest
        /\ \A confirmed \in BOOLEAN :
              (ClickExport(confirmed) /\ LatestRunLive) => alertMsg' # NoAlert ]_vars

\* the parts of C32 that hold: a run start clears the stored result, only a
\* result message stores one, and with nothing stored the export is refused
C32_ClearedAtStartSetByResult ==
    [][ /\ \A s \in 1..MaxSessions : RunTracked(s) => lastBacktestResult' = NoResult
        /\ (lastBacktestResult' # lastBacktestResult /\ lastBacktestResult' # NoResult)
              => \E s \in 1..MaxSessions, r \in Results :
                    WsMessage(s, [type |-> "result", result |-> r])
        /\ \A confirmed \in BOOLEAN :
              (ClickExport(confirmed) /\ lastBacktestResult = NoResult)
                 => (alertMsg' # NoAlert /\ exportPending' = exportPending) ]_vars

\* C33: a message of a session changes rows only of the baseline that was
\* loaded for the configuration the session sent: when the table on display
\* was loaded for another symbol, the session's trade events and result logs
\* leave its rows as they are.
ForeignTable(s) ==
    /\ sockets[s].state = "open"
    /\ sockets[s].sent # <<>>
    /\ tableFor # NoSymbol
    /\ sockets[s].sent[1] # tableFor

C33_ForeignTableNotMutated ==
    [][ \A s \in 1..MaxSessions, msg \in Messages :
           (ForeignTable(s) /\ WsMessage(s, msg)) => table'.rows = table.rows ]_vars

\* the scenario of C33 is reachable: a session that sent the configuration
\* of B is streaming, the table now on display was loaded for A afterwards
\* (the form shows A), and a row of it carries the session's BUY
C33_ReloadedTableMutated ==
    /\ \E s \in 1..MaxSessions : ForeignTable(s) /\ sockets[s].sent = <<"B">>
    /\ \A s \in 1..MaxSessions : Live(s) => sockets[s].sent = <<"B">>
    /\ tableFor = "A"
    /\ form = "A"
    /\ \E i \in 1..Len(table.rows) : table.rows[i].rowBuy

\* C34: every event of the trade list has a marker with the same id in the
\* marker list.
HasMarker(ev) ==
    /\ Has(ev, "event_id")
    /\ \E j \in 1..Len(currentMarkers) : currentMarkers[j].id = ev.event_id

C34_ListedEventsHaveMarkers ==
    \A i \in 1..Len(allTradeEvents) : HasMarker(allTradeEvents[i])

\* the same after a replacement with a batch that is not empty
C34_NonEmptyReplaceConsistent ==
    \A b \in Batches \ {<<>>} : \E clock \in Clock(b) :
       LET st == chartApi_setMarkers(Store, b, currentChartTimeframe, clock)
       IN  \A i \in 1..Len(st.events) :
              \E j \in 1..Len(st.markers) : st.markers[j].id = st.events[i].event_id

\* C35: all markers of the list carry time values of one granularity, that of
\* the dataset on display: dates when the candles shown are daily, instants
\* otherwise.
Granularity(tf) == IF tf = "D" THEN "date" ELSE "instant"

C35_OneGranularity ==
    /\ \A i, j \in 1..Len(currentMarkers) :
          currentMarkers[i].time.kind = currentMarkers[j].time.kind
    /\ series.candles # NoSel
          => \A i \in 1..Len(currentMarkers) :
                currentMarkers[i].time.kind = Granularity(series.candles.tf)

\* C36: the page number of the trade list is valid:
\* 1 <= currentPage <= max(1, ceil(number of trade events / itemsPerPage)).
C36_PageNumberValid ==
    /\ 1 <= currentPage
    /\ currentPage <= (IF maxPage(allTradeEvents) > 1 THEN maxPage(allTradeEvents) ELSE 1)

\* the same for the steps of the two buttons and of a bulk replacement
C36_ButtonsKeepPageValid ==
    [][ (C36_PageNumberValid
         /\ (PrevPage \/ NextPage \/ \E b \in {BatchPages, BatchSorted} : SetMarkers(b)))
           => C36_PageNumberValid' ]_vars

\* C37: the popup's loading indicator is shown as long as the request for the
\* current selection (currentSymbol, currentInterval) is in flight.
CurrentRequestPending ==
    \E i \in 1..Len(popupFetches) :
       popupFetches[i] = [sym |-> currentSymbol, tf |-> currentInterval]

C37_LoaderShownWhilePending == CurrentRequestPending => loaderShown

\* C38 (SpecSell): while a sell order of a position awaits its response, the
\* sell button on display for that position is disabled, and no second order
\* of the same position is in flight.
SellPending(p) == \E i \in 1..Len(sellRequests) : sellRequests[i].symbol = p

C38_SellDisabledWhilePending ==
    /\ \A p \in DOMAIN sellButtons : SellPending(p) => sellButtons[p].disabled
    /\ \A i, j \in 1..Len(sellRequests) :
          sellRequests[i].symbol = sellRequests[j].symbol => i = j

\* C38, scenario: two orders of one position in flight at once
C38_TwoOrdersOfOnePosition ==
    \E i, j \in 1..Len(sellRequests) :
        i # j /\ sellRequests[i].symbol = sellRequests[j].symbol

\* C39 (SpecControl): while a start / restart sequence is in flight the
\* start button is disabled, and at most one such sequence is in flight.
StartSequences == {i \in 1..Len(controls) : controls[i].handler = "btn-start"}

C39_StartDisabledWhileInFlight ==
    /\ StartSequences # {} => btnStart.disabled
    /\ Cardinality(StartSequences) <= 1

\* C39, scenario: two start / restart sequences in flight at once
C39_TwoSequences == Cardinality(StartSequences) = 2

====
